---- MODULE Spec2Model ----
(***************************************************************************)
(* Query-composition layer of the PredictionMarkets dashboard: the         *)
(* relational store (schema.ts), the two mutating server actions           *)
(* (watchlist toggle, alert acknowledgement) and the paginated market      *)
(* query, as state machines over one store shared with the external        *)
(* collector.                                                              *)
(***************************************************************************)
EXTENDS Integers, Sequences, FiniteSets, TLC

(***************************************************************************)
(* Bounds of the model.                                                    *)
(***************************************************************************)
NumClients == 2      \* concurrent requesters of server actions
NumTraders == 2      \* rows of traders (ids 1..NumTraders)
NumAlerts == 2       \* rows of alerts (ids 1..NumAlerts)
MaxMarkets == 104    \* rows of markets in the largest initial store
MaxCommits == 1      \* writes the collector commits while the layer is observed

(***************************************************************************)
(* Program constants.                                                      *)
(***************************************************************************)
PAGE_SIZE == 50

Clients == 1..NumClients
\* ids a caller may pass: every existing row's id and one that matches no row
TraderIdArgs == 1..(NumTraders + 1)
AlertIdArgs == 1..(NumAlerts + 1)

\* an optional value: absent (undefined / SQL NULL) or present
NONE == <<>>
Some(v) == <<v>>
IsSome(o) == o # <<>>
Val(o) == o[1]

Range(s) == {s[i] : i \in DOMAIN s}

VARIABLES
    db,       \* the relational store: one sequence of rows per table
    now,      \* the wall clock, in hours
    req,      \* per client: the server action it has in flight, or its outcome
    call,     \* the getMarkets call in flight, or its result
    commits   \* number of writes the external collector has committed

vars == <<db, now, req, call, commits>>

(***************************************************************************)
(* The store (schema.ts).  Each table is the sequence of its rows in       *)
(* insertion order; a nullable column holds NONE or Some(v).  Prices are   *)
(* in cents, timestamps in hours of the wall clock.  Titles are sequences  *)
(* of characters.                                                          *)
(***************************************************************************)
Fed == <<"F", "e", "d">>
fee == <<"f", "e", "e">>
Gdp == <<"G", "d", "p">>

\* row i of markets as the collector writes it
SeedMarket(i) ==
    [id |-> i,
     platform |-> IF i % 5 = 0 THEN "polymarket" ELSE "kalshi",
     platformId |-> i,
     title |-> IF i % 8 = 0 THEN Gdp ELSE IF i % 2 = 0 THEN fee ELSE Fed,
     category |-> IF i % 6 = 0 THEN "Sports"
                  ELSE IF i % 13 = 0 THEN "" ELSE "Politics",
     status |-> IF i % 7 = 0 THEN "resolved"
                ELSE IF i % 11 = 0 THEN "closed" ELSE "active",
     yesPrice |-> IF i % 10 = 0 THEN NONE ELSE Some(45 + 5 * (i % 3)),
     volume |-> IF i % 9 = 0 THEN NONE ELSE Some(i % 4)]

SeedAlert(i) ==
    [id |-> i,
     alertType |-> IF i % 2 = 0 THEN "arbitrage" ELSE "price_move",
     severity |-> IF i % 2 = 0 THEN "warning" ELSE "info",
     marketId |-> Some(1),
     title |-> Fed,
     acknowledged |-> 0,
     triggeredAt |-> 0]

SeedTrader(i) ==
    [id |-> i,
     proxyWallet |-> i,
     totalPnl |-> IF i % 3 = 0 THEN NONE ELSE Some(i),
     totalVolume |-> Some(10 * i)]

\* the store with n markets, as populated by the collector; the watchlist
\* is written by this layer only and starts empty
SeedStore(n) ==
    [markets |-> [i \in 1..n |-> SeedMarket(i)],
     market_pairs |->
        <<[id |-> 1, kalshiMarketId |-> Some(1), polymarketMarketId |-> Some(5),
           priceGap |-> Some(7)]>>,
     price_snapshots |->
        <<[id |-> 1, marketId |-> 1, yesPrice |-> Some(50), timestamp |-> 0]>>,
     analysis_results |->
        <<[id |-> 1, pairId |-> Some(1), priceGap |-> Some(7)]>>,
     alerts |-> [i \in 1..NumAlerts |-> SeedAlert(i)],
     insights |->
        <<[id |-> 1, reportType |-> "briefing", title |-> Fed, createdAt |-> 0]>>,
     agent_logs |->
        <<[id |-> 1, agentName |-> "discovery", status |-> "success",
           startedAt |-> Some(0)]>>,
     traders |-> [i \in 1..NumTraders |-> SeedTrader(i)],
     whale_trades |->
        <<[id |-> 1, traderId |-> Some(1), conditionId |-> 5, usdcSize |-> Some(9),
           transactionHash |-> 1, tradeTimestamp |-> Some(0)]>>,
     trader_positions |->
        <<[id |-> 1, traderId |-> Some(1), currentValue |-> Some(3),
           snapshotTime |-> 0]>>,
     trader_watchlist |-> <<>>]

\* the tables the external collector owns outright
CollectorTables ==
    {"markets", "market_pairs", "price_snapshots", "analysis_results", "insights",
     "agent_logs", "traders", "whale_trades", "trader_positions"}

(***************************************************************************)
(* Errors.  String(e).toLowerCase() is the sequence of lower-cased words   *)
(* of the error's text; msg.includes(w) is membership of w.                *)
(***************************************************************************)
UniqueViolation ==
    <<"NeonDbError:", "duplicate", "key", "value", "violates", "unique",
      "constraint">>
ForeignKeyViolation ==
    <<"NeonDbError:", "insert", "or", "update", "violates", "foreign", "key",
      "constraint">>
NegativeOffset == <<"NeonDbError:", "OFFSET", "must", "not", "be", "negative">>
StoreUnreachable == <<"TypeError:", "fetch", "failed">>
NoError == <<>>

ToLowerWord(w) ==
    CASE w = "NeonDbError:" -> "neondberror:"
      [] w = "TypeError:" -> "typeerror:"
      [] w = "OFFSET" -> "offset"
      [] OTHER -> w

ToLowerCase(e) == [i \in DOMAIN e |-> ToLowerWord(e[i])]
Includes(msg, w) == w \in Range(msg)

(***************************************************************************)
(* Statements against trader_watchlist and alerts.  Each is one atomic     *)
(* statement of the store and yields the store after it, the error the     *)
(* store raised (NoError when none) and the number of rows it wrote.       *)
(***************************************************************************)
WatchRows(d, traderId) ==
    {i \in DOMAIN d.trader_watchlist : d.trader_watchlist[i].traderId = traderId}

TraderExists(d, traderId) == \E i \in DOMAIN d.traders : d.traders[i].id = traderId

\* mutant: the column without its unique constraint
TraderIdUnique_Dropped(d, traderId) == TRUE

\* trader_id is declared .unique(): the store refuses a second row
TraderIdUnique(d, traderId) == WatchRows(d, traderId) = {}

\* db.insert(traderWatchlist).values({traderId, createdAt}); the serial id
\* the store gives the row is left out, a row being its place in the table
InsertWatchlist(d, traderId, createdAt) ==
    IF ~TraderIdUnique(d, traderId)
    THEN [db |-> d, error |-> UniqueViolation, rows |-> 0]
    ELSE IF ~TraderExists(d, traderId)
    THEN [db |-> d, error |-> ForeignKeyViolation, rows |-> 0]
    ELSE [db |-> [d EXCEPT !.trader_watchlist =
                     Append(@, [traderId |-> traderId, notes |-> "",
                                createdAt |-> createdAt])],
          error |-> NoError, rows |-> 1]

\* db.delete(traderWatchlist).where(eq(traderWatchlist.traderId, traderId))
DeleteWatchlist(d, traderId) ==
    [db |-> [d EXCEPT !.trader_watchlist =
                SelectSeq(@, LAMBDA r : r.traderId # traderId)],
     error |-> NoError,
     rows |-> Cardinality(WatchRows(d, traderId))]

\* mutant: the update flips the flag instead of setting it
UpdateAcknowledged_Flip(d, alertId) ==
    [db |-> [d EXCEPT !.alerts =
                [i \in DOMAIN @ |->
                    IF @[i].id = alertId
                    THEN [@[i] EXCEPT !.acknowledged = 1 - @]
                    ELSE @[i]]],
     error |-> NoError,
     rows |-> Cardinality({i \in DOMAIN d.alerts : d.alerts[i].id = alertId})]

\* mutant: the update without its where clause
UpdateAcknowledged_NoWhere(d, alertId) ==
    [db |-> [d EXCEPT !.alerts =
                [i \in DOMAIN @ |-> [@[i] EXCEPT !.acknowledged = 1]]],
     error |-> NoError,
     rows |-> Len(d.alerts)]

\* db.update(alerts).set({acknowledged: 1}).where(eq(alerts.id, alertId))
UpdateAcknowledged(d, alertId) ==
    [db |-> [d EXCEPT !.alerts =
                [i \in DOMAIN @ |->
                    IF @[i].id = alertId THEN [@[i] EXCEPT !.acknowledged = 1]
                    ELSE @[i]]],
     error |-> NoError,
     rows |-> Cardinality({i \in DOMAIN d.alerts : d.alerts[i].id = alertId})]

\* a statement the store could not be reached for: nothing is written
Unreachable(d) == [db |-> d, error |-> StoreUnreachable, rows |-> 0]

(***************************************************************************)
(* Query functions of traders.ts and alerts.ts.  `thrown` is the error the *)
(* function rejects with, NoError when it resolves.                        *)
(***************************************************************************)
\* mutant: the catch clause looks for a word the store's error does not hold
IsBenignConflict_WrongWord(e) == Includes(ToLowerCase(e), "conflict")

\* the catch clause of addToWatchlist: which errors it swallows
IsBenignConflict(e) ==
    LET msg == ToLowerCase(e)
    IN  Includes(msg, "unique") \/ Includes(msg, "duplicate")

\* mutant: addToWatchlist without its catch clause
addToWatchlist_NoCatch(d, traderId, createdAt, up) ==
    LET r == IF up THEN InsertWatchlist(d, traderId, createdAt) ELSE Unreachable(d)
    IN  [db |-> r.db, rows |-> r.rows, thrown |-> r.error]

addToWatchlist(d, traderId, createdAt, up) ==
    LET r == IF up THEN InsertWatchlist(d, traderId, createdAt) ELSE Unreachable(d)
    IN  [db |-> r.db, rows |-> r.rows,
         thrown |-> IF r.error = NoError \/ IsBenignConflict(r.error)
                    THEN NoError ELSE r.error]

removeFromWatchlist(d, traderId, up) ==
    LET r == IF up THEN DeleteWatchlist(d, traderId) ELSE Unreachable(d)
    IN  [db |-> r.db, rows |-> r.rows, thrown |-> r.error]

acknowledgeAlert(d, alertId, up) ==
    LET r == IF up THEN UpdateAcknowledged(d, alertId) ELSE Unreachable(d)
    IN  [db |-> r.db, rows |-> r.rows, thrown |-> r.error]

getWatchlistIds(d) == {d.trader_watchlist[i].traderId : i \in DOMAIN d.trader_watchlist}

(***************************************************************************)
(* Server actions (watchlist/actions.ts, alerts/actions.ts).  A client's   *)
(* request is at "stmt" while its statement is awaited, at "revalidate"    *)
(* once the statement has resolved, and ends "returned" or "threw"; a      *)
(* request that has ended keeps its outcome and not the id it was given.   *)
(***************************************************************************)
IdleReq ==
    [op |-> "none", pc |-> "idle", id |-> 0, isWatched |-> FALSE,
     thrown |-> NoError, rows |-> 0, revalidated |-> {}]

Finished(r) == r.pc \in {"idle", "returned", "threw"}

\* mutant: the trader listing is not invalidated
TogglePaths_NoTraders == <<"/leaderboard", "/watchlist">>

TogglePaths == <<"/leaderboard", "/watchlist", "/traders">>
AckPaths == <<"/alerts">>

\* mutant: the branches of the toggle exchanged
toggleStatement_Exchanged(d, traderId, isWatched, createdAt, up) ==
    IF isWatched THEN addToWatchlist(d, traderId, createdAt, up)
    ELSE removeFromWatchlist(d, traderId, up)

\* mutant: the toggle flips what the store holds, whatever the view showed
toggleStatement_Flips(d, traderId, isWatched, createdAt, up) ==
    IF WatchRows(d, traderId) # {} THEN removeFromWatchlist(d, traderId, up)
    ELSE addToWatchlist(d, traderId, createdAt, up)

\* the statement a toggle runs: remove when the view showed the trader
\* watched, add otherwise
toggleStatement(d, traderId, isWatched, createdAt, up) ==
    IF isWatched THEN removeFromWatchlist(d, traderId, up)
    ELSE addToWatchlist(d, traderId, createdAt, up)

\* a client clicks the star rendered with watched = isWatched (the view may
\* be stale; the search listing renders every star unwatched)
ToggleCall(c, traderId, isWatched) ==
    /\ Finished(req[c])
    /\ req' = [req EXCEPT ![c] =
                  [IdleReq EXCEPT !.op = "toggle", !.pc = "stmt",
                                  !.id = traderId, !.isWatched = isWatched]]
    /\ UNCHANGED <<db, now, call, commits>>

\* the awaited statement runs in the store; a rejection leaves the action
ToggleStmt(c, up) ==
    /\ req[c].op = "toggle" /\ req[c].pc = "stmt"
    /\ LET r == toggleStatement(db, req[c].id, req[c].isWatched, now, up)
       IN  /\ db' = r.db
           /\ req' = [req EXCEPT ![c].rows = r.rows, ![c].thrown = r.thrown,
                                 ![c].pc = IF r.thrown = NoError
                                           THEN "revalidate" ELSE "threw",
                                 ![c].id = IF r.thrown = NoError THEN @ ELSE 0]
    /\ UNCHANGED <<now, call, commits>>

\* revalidatePath x3, then the action returns
ToggleRevalidate(c) ==
    /\ req[c].op = "toggle" /\ req[c].pc = "revalidate"
    /\ req' = [req EXCEPT ![c].revalidated = Range(TogglePaths),
                          ![c].pc = "returned", ![c].id = 0]
    /\ UNCHANGED <<db, now, call, commits>>

AckCall(c, alertId) ==
    /\ Finished(req[c])
    /\ req' = [req EXCEPT ![c] =
                  [IdleReq EXCEPT !.op = "ack", !.pc = "stmt", !.id = alertId]]
    /\ UNCHANGED <<db, now, call, commits>>

AckStmt(c, up) ==
    /\ req[c].op = "ack" /\ req[c].pc = "stmt"
    /\ LET r == acknowledgeAlert(db, req[c].id, up)
       IN  /\ db' = r.db
           /\ req' = [req EXCEPT ![c].rows = r.rows, ![c].thrown = r.thrown,
                                 ![c].pc = IF r.thrown = NoError
                                           THEN "revalidate" ELSE "threw",
                                 ![c].id = IF r.thrown = NoError THEN @ ELSE 0]
    /\ UNCHANGED <<now, call, commits>>

AckRevalidate(c) ==
    /\ req[c].op = "ack" /\ req[c].pc = "revalidate"
    /\ req' = [req EXCEPT ![c].revalidated = Range(AckPaths),
                          ![c].pc = "returned", ![c].id = 0]
    /\ UNCHANGED <<db, now, call, commits>>

\* no getMarkets call made yet
IdleCall ==
    [pc |-> "idle", params |-> <<>>, dataDone |-> FALSE, data |-> <<>>,
     countDone |-> FALSE, countResult |-> <<>>, thrown |-> NoError,
     result |-> <<>>, atCall |-> 0, atData |-> 0, atCount |-> 0]

Init ==
    /\ db = SeedStore(2)
    /\ now = 0
    /\ req = [c \in Clients |-> IdleReq]
    /\ call = IdleCall
    /\ commits = 0

\* the watchlist action alone
NextWatch ==
    \E c \in Clients :
        \/ \E t \in TraderIdArgs, w \in BOOLEAN : ToggleCall(c, t, w)
        \/ \E up \in BOOLEAN : ToggleStmt(c, up)
        \/ ToggleRevalidate(c)

\* the alert action alone
NextAlerts ==
    \E c \in Clients :
        \/ \E a \in AlertIdArgs : AckCall(c, a)
        \/ \E up \in BOOLEAN : AckStmt(c, up)
        \/ AckRevalidate(c)

\* both server actions
Next == NextWatch \/ NextAlerts

SpecWatch == Init /\ [][NextWatch]_vars
SpecAlerts == Init /\ [][NextAlerts]_vars
Spec == Init /\ [][Next]_vars

(***************************************************************************)
(* getMarkets (markets.ts).                                                *)
(***************************************************************************)
\* a JavaScript string is truthy unless undefined or empty; search text is a
\* character sequence
Truthy(o) == IsSome(o) /\ Val(o) # ""
TruthyText(o) == IsSome(o) /\ Len(Val(o)) > 0

\* destructuring defaults: status = "active", sort = "volume_desc", page = 1
Default(o, v) == IF IsSome(o) THEN Val(o) ELSE v

LowerChar(ch) ==
    CASE ch = "F" -> "f"
      [] ch = "G" -> "g"
      [] OTHER -> ch

Lower(t) == [i \in DOMAIN t |-> LowerChar(t[i])]

\* SQL LIKE: % matches any run of characters, _ any one character
RECURSIVE Like(_, _)
Like(t, pat) ==
    IF pat = <<>> THEN t = <<>>
    ELSE IF Head(pat) = "%"
         THEN Like(t, Tail(pat)) \/ (t # <<>> /\ Like(Tail(t), pat))
    ELSE /\ t # <<>>
         /\ Head(pat) = "_" \/ Head(pat) = Head(t)
         /\ Like(Tail(t), Tail(pat))

ILike(t, pat) == Like(Lower(t), Lower(pat))

\* the conditions getMarkets pushes, in order
Conditions(p) ==
    LET status == IF IsSome(p.status) THEN p.status ELSE Some("active")
    IN  (IF Truthy(status) /\ Val(status) # "all"
         THEN <<[col |-> "status", op |-> "eq", val |-> Val(status)]>> ELSE <<>>)
        \o
        (IF Truthy(p.platform) /\ Val(p.platform) # "all"
         THEN <<[col |-> "platform", op |-> "eq", val |-> Val(p.platform)]>>
         ELSE <<>>)
        \o
        (IF Truthy(p.category) /\ Val(p.category) # "All" /\ Val(p.category) # "all"
         THEN <<[col |-> "category", op |-> "eq", val |-> Val(p.category)]>>
         ELSE <<>>)
        \o
        (IF TruthyText(p.search)
         THEN <<[col |-> "title", op |-> "ilike",
                 val |-> <<"%">> \o Val(p.search) \o <<"%">>]>>
         ELSE <<>>)

Holds(row, cond) ==
    IF cond.op = "eq" THEN row[cond.col] = cond.val
    ELSE ILike(row[cond.col], cond.val)

\* where = and(...conditions), or no where clause at all
Where(row, conds) == \A i \in DOMAIN conds : Holds(row, conds[i])

\* mutant: the default branch of the switch sorts by ascending volume
OrderBy_DefaultAscending(sort) ==
    CASE sort = "volume_desc" -> [col |-> "volume", dir |-> "desc"]
      [] sort = "title_asc" -> [col |-> "title", dir |-> "asc"]
      [] sort = "title_desc" -> [col |-> "title", dir |-> "desc"]
      [] sort = "yes_price_desc" -> [col |-> "yesPrice", dir |-> "desc"]
      [] sort = "yes_price_asc" -> [col |-> "yesPrice", dir |-> "asc"]
      [] OTHER -> [col |-> "volume", dir |-> "asc"]

\* the switch on sort, with volume_desc as its default branch
OrderBy(sort) ==
    CASE sort = "volume_asc" -> [col |-> "volume", dir |-> "asc"]
      [] sort = "title_asc" -> [col |-> "title", dir |-> "asc"]
      [] sort = "title_desc" -> [col |-> "title", dir |-> "desc"]
      [] sort = "yes_price_desc" -> [col |-> "yesPrice", dir |-> "desc"]
      [] sort = "yes_price_asc" -> [col |-> "yesPrice", dir |-> "asc"]
      [] OTHER -> [col |-> "volume", dir |-> "desc"]

\* mutant: the offset taken from a 0-based page
Offset_ZeroBased(page) == page * PAGE_SIZE

Offset(page) == (page - 1) * PAGE_SIZE

\* the position of a sort key in ascending order: numbers by value, titles
\* by their characters, NULL above every value
TitleRank(t) == CASE t = Fed -> 1 [] t = Gdp -> 2 [] t = fee -> 3 [] OTHER -> 4
NullRank == 1000
KeyRank(row, col) ==
    IF col = "title" THEN TitleRank(row.title)
    ELSE IF IsSome(row[col]) THEN Val(row[col]) ELSE NullRank

Reverse(s) == [i \in DOMAIN s |-> s[Len(s) + 1 - i]]

\* the keys present, in the order asked for
RECURSIVE KeysInOrder(_, _)
KeysInOrder(keys, dir) ==
    IF keys = {} THEN <<>>
    ELSE LET k == CHOOSE x \in keys :
                     \A y \in keys : IF dir = "asc" THEN x <= y ELSE x >= y
         IN  <<k>> \o KeysInOrder(keys \ {k}, dir)

RECURSIVE Concat(_, _, _, _)
Concat(rows, col, ks, i) ==
    IF i > Len(ks) THEN <<>>
    ELSE SelectSeq(rows, LAMBDA r : KeyRank(r, col) = ks[i])
         \o Concat(rows, col, ks, i + 1)

\* ORDER BY: rows that tie on the key come in the order the plan scans the
\* table, which the statement does not fix ("heap": as stored, "reverse")
Sorted(rows, ob, plan) ==
    LET scan == IF plan = "heap" THEN rows ELSE Reverse(rows)
        keys == {KeyRank(rows[i], ob.col) : i \in DOMAIN rows}
    IN  Concat(scan, ob.col, KeysInOrder(keys, ob.dir), 1)

Plans == {"heap", "reverse"}

\* select().from(markets).where(where).orderBy(orderBy).limit(..).offset(..)
SelectMarkets(d, conds, ob, limit, offset, plan) ==
    IF offset < 0 THEN [rows |-> <<>>, error |-> NegativeOffset]
    ELSE LET all == Sorted(SelectSeq(d.markets, LAMBDA r : Where(r, conds)), ob, plan)
             last == IF offset + limit < Len(all) THEN offset + limit ELSE Len(all)
         IN  [rows |-> SubSeq(all, offset + 1, last), error |-> NoError]

\* mutant: the count query without the where clause
CountMarkets_NoWhere(d, conds) ==
    [rows |-> <<[count |-> Len(d.markets)]>>, error |-> NoError]

\* select({count: count(*)}).from(markets).where(where)
CountMarkets(d, conds) ==
    [rows |-> <<[count |-> Len(SelectSeq(d.markets, LAMBDA r : Where(r, conds)))]>>,
     error |-> NoError]

\* Math.ceil(n / PAGE_SIZE) for n >= 0
CeilPages(n) == (n + PAGE_SIZE - 1) \div PAGE_SIZE

\* the object getMarkets returns once both queries of Promise.all resolved
MarketsResult(c) ==
    LET page == Default(c.params.page, 1)
        count == IF c.countResult = <<>> THEN 0 ELSE c.countResult[1].count
    IN  [data |-> c.data, total |-> count, page |-> page, pageSize |-> PAGE_SIZE,
         totalPages |-> CeilPages(count)]

\* Promise.all settles: it rejects with the first query that rejects and
\* resolves when both have resolved
Settle(c) ==
    IF c.thrown # NoError THEN [c EXCEPT !.pc = "threw"]
    ELSE IF c.dataDone /\ c.countDone
    THEN [c EXCEPT !.pc = "returned", !.result = MarketsResult(c)]
    ELSE c

Param(platform, status, category, search, sort, page) ==
    [platform |-> platform, status |-> status, category |-> category,
     search |-> search, sort |-> sort, page |-> page]

\* a page calls getMarkets(params): both queries are sent
GetMarketsCall(p) ==
    /\ call.pc = "idle"
    /\ call' = [IdleCall EXCEPT !.pc = "pending", !.params = p, !.atCall = commits]
    /\ UNCHANGED <<db, now, req, commits>>

\* the store runs the row fetch
RowFetch(up, plan) ==
    /\ call.pc = "pending" /\ ~call.dataDone
    /\ LET p == call.params
           r == IF up
                THEN SelectMarkets(db, Conditions(p),
                                   OrderBy(Default(p.sort, "volume_desc")),
                                   PAGE_SIZE, Offset(Default(p.page, 1)), plan)
                ELSE [rows |-> <<>>, error |-> StoreUnreachable]
       IN  call' = Settle([call EXCEPT !.dataDone = TRUE, !.data = r.rows,
                                       !.thrown = r.error, !.atData = commits])
    /\ UNCHANGED <<db, now, req, commits>>

\* the store runs the count query
CountQuery(up) ==
    /\ call.pc = "pending" /\ ~call.countDone
    /\ LET r == IF up THEN CountMarkets(db, Conditions(call.params))
                ELSE [rows |-> <<>>, error |-> StoreUnreachable]
       IN  call' = Settle([call EXCEPT !.countDone = TRUE, !.countResult = r.rows,
                                       !.thrown = r.error, !.atCount = commits])
    /\ UNCHANGED <<db, now, req, commits>>

\* the page renders what getMarkets gave it (or the error boundary does) and
\* the request ends
MarketsRendered ==
    /\ call.pc \in {"returned", "threw"}
    /\ call' = IdleCall
    /\ UNCHANGED <<db, now, req, commits>>

(***************************************************************************)
(* The external collector: it inserts markets and changes their status,    *)
(* each write committed on its own.                                        *)
(***************************************************************************)
CollectorInsertMarket ==
    /\ commits < MaxCommits
    /\ db' = [db EXCEPT !.markets = Append(@, SeedMarket(Len(@) + 1))]
    /\ commits' = commits + 1
    /\ UNCHANGED <<now, req, call>>

CollectorSetStatus(i, status) ==
    /\ commits < MaxCommits
    /\ i \in DOMAIN db.markets
    /\ db.markets[i].status # status
    /\ db' = [db EXCEPT !.markets[i].status = status]
    /\ commits' = commits + 1
    /\ UNCHANGED <<now, req, call>>

\* the store sizes the market queries are checked on
MarketCounts == {0, PAGE_SIZE, PAGE_SIZE + 1, MaxMarkets}

\* the parameters pages pass
Platforms == {NONE, Some("kalshi")}
Statuses == {NONE, Some("all"), Some("resolved")}
Categories == {NONE, Some("Politics")}
Searches == {NONE, Some(<<"f", "e">>)}
Sorts == {NONE, Some("title_asc")}
Pages == {NONE, Some(-1), Some(0), Some(2), Some(3)}

InitMarkets ==
    /\ \E n \in MarketCounts : db = SeedStore(n)
    /\ now = 0
    /\ req = [c \in Clients |-> IdleReq]
    /\ call = IdleCall
    /\ commits = 0

NextMarkets ==
    \/ \E platform \in Platforms, status \in Statuses, category \in Categories,
          search \in Searches, sort \in Sorts, page \in Pages :
          GetMarketsCall(Param(platform, status, category, search, sort, page))
    \/ \E up \in BOOLEAN, plan \in Plans : RowFetch(up, plan)
    \/ \E up \in BOOLEAN : CountQuery(up)
    \/ MarketsRendered
    \/ CollectorInsertMarket
    \/ \E i \in {1, PAGE_SIZE + 1}, status \in {"active", "resolved"} :
          CollectorSetStatus(i, status)

SpecMarkets == InitMarkets /\ [][NextMarkets]_vars

\* getMarkets on a store the collector leaves alone, over the filter values a
\* URL can carry: in and out of the vocabularies, empty, and with the
\* characters LIKE reads as wildcards
FilterPlatforms == {NONE, Some("all"), Some("polymarket")}
FilterStatuses == {NONE, Some("all"), Some("resolved"), Some(""), Some("bogus")}
FilterCategories == {NONE, Some("all"), Some("Sports"), Some("Bogus")}
FilterSearches == {NONE, Some(<<"F", "e">>), Some(<<"_">>)}
FilterPages == {NONE, Some(2)}

NextFilters ==
    \/ \E platform \in FilterPlatforms, status \in FilterStatuses,
          category \in FilterCategories, search \in FilterSearches,
          page \in FilterPages :
          GetMarketsCall(Param(platform, status, category, search, NONE, page))
    \/ \E up \in BOOLEAN, plan \in Plans : RowFetch(up, plan)
    \/ \E up \in BOOLEAN : CountQuery(up)
    \/ MarketsRendered

SpecFilters == InitMarkets /\ [][NextFilters]_vars

\* getMarkets over the sort keys: the six of the switch, none, and one the
\* switch does not name
SortKeys ==
    {NONE, Some("volume_desc"), Some("volume_asc"), Some("yes_price_desc"),
     Some("yes_price_asc"), Some("title_asc"), Some("title_desc"), Some("bogus")}
SortStatuses == {NONE, Some("all")}
SortPages == {NONE, Some(2), Some(3)}

NextSorts ==
    \/ \E status \in SortStatuses, sort \in SortKeys, page \in SortPages :
          GetMarketsCall(Param(NONE, status, NONE, NONE, sort, page))
    \/ \E up \in BOOLEAN, plan \in Plans : RowFetch(up, plan)
    \/ \E up \in BOOLEAN : CountQuery(up)
    \/ MarketsRendered

SpecSorts == InitMarkets /\ [][NextSorts]_vars

(***************************************************************************)
(* Smart filters (smart-filters.ts).  Texts the queries read (close times, *)
(* snapshot timestamps, the regular expression) are sequences of           *)
(* characters; the clock counts hours from 2025-01-01T00:00Z.              *)
(***************************************************************************)
DEFAULT_LIMIT == 50

Digits == {"0", "1", "2", "3", "4", "5", "6", "7", "8", "9"}
DigitVal(ch) ==
    CASE ch = "0" -> 0 [] ch = "1" -> 1 [] ch = "2" -> 2 [] ch = "3" -> 3
      [] ch = "4" -> 4 [] ch = "5" -> 5 [] ch = "6" -> 6 [] ch = "7" -> 7
      [] ch = "8" -> 8 [] ch = "9" -> 9

DaysIn == <<31, 28, 31, 30, 31, 30, 31, 31, 30, 31, 30, 31>>
DaysBefore == <<0, 31, 59, 90, 120, 151, 181, 212, 243, 273, 304, 334>>

\* text::timestamptz for a text of the form YYYY-MM-DD: the hour of the
\* clock at which that day begins, or NONE where the store raises "invalid
\* input syntax" or "date/time field value out of range"
ParseTimestamptz(t) ==
    IF /\ Len(t) = 10 /\ t[5] = "-" /\ t[8] = "-"
       /\ \A i \in {1, 2, 3, 4, 6, 7, 9, 10} : t[i] \in Digits
    THEN LET year == 1000 * DigitVal(t[1]) + 100 * DigitVal(t[2])
                         + 10 * DigitVal(t[3]) + DigitVal(t[4])
             month == 10 * DigitVal(t[6]) + DigitVal(t[7])
             day == 10 * DigitVal(t[9]) + DigitVal(t[10])
         IN  IF month \in 1..12 /\ day >= 1 /\ day <= DaysIn[month]
             THEN Some(((year - 2025) * 365 + DaysBefore[month] + day - 1) * 24)
             ELSE NONE
    ELSE NONE

InvalidTimestamp ==
    <<"NeonDbError:", "invalid", "input", "syntax", "for", "type", "timestamp",
      "with", "time", "zone">>

\* the characters of the pattern as the source file spells it, inside the
\* template literal handed to the sql tag
ClosingSoonPattern ==
    <<"^", "\\", "d", "{", "4", "}", "-", "\\", "d", "{", "2", "}", "-",
      "\\", "d", "{", "2", "}">>

\* the string a template literal denotes: a backslash and the character
\* after it stand for one character, which is that character itself unless
\* the pair is a named escape
RECURSIVE Cooked(_)
Cooked(src) ==
    IF src = <<>> THEN <<>>
    ELSE IF Head(src) = "\\" /\ Len(src) >= 2
    THEN <<CASE src[2] = "n" -> "\n" [] src[2] = "t" -> "\t" [] OTHER -> src[2]>>
         \o Cooked(SubSeq(src, 3, Len(src)))
    ELSE <<Head(src)>> \o Cooked(Tail(src))

\* text ~ re from the head of the text, for patterns made of characters,
\* \d, and counts {n}
RECURSIVE MatchHere(_, _)
MatchHere(t, re) ==
    IF re = <<>> THEN TRUE
    ELSE LET escaped == Head(re) = "\\" /\ Len(re) >= 2
             atom == IF escaped THEN re[2] ELSE re[1]
             after == SubSeq(re, IF escaped THEN 3 ELSE 2, Len(re))
             counted == Len(after) >= 3 /\ after[1] = "{" /\ after[3] = "}"
             n == IF counted THEN DigitVal(after[2]) ELSE 1
             rest == IF counted THEN SubSeq(after, 4, Len(after)) ELSE after
             Is(ch) == IF escaped /\ atom = "d" THEN ch \in Digits ELSE ch = atom
         IN  /\ Len(t) >= n
             /\ \A i \in 1..n : Is(t[i])
             /\ MatchHere(SubSeq(t, n + 1, Len(t)), rest)

RegexMatches(t, re) ==
    IF re # <<>> /\ Head(re) = "^" THEN MatchHere(t, Tail(re))
    ELSE \E k \in 0..Len(t) : MatchHere(SubSeq(t, k + 1, Len(t)), re)

Abs(x) == IF x < 0 THEN 0 - x ELSE x
Coalesce(o, v) == IF IsSome(o) THEN Val(o) ELSE v
Take(rows, n) == SubSeq(rows, 1, IF n < Len(rows) THEN n ELSE Len(rows))

\* rows given a sort key that is not a column, and back
Keyed(rows, keys) == [i \in DOMAIN rows |-> [row |-> rows[i], key |-> keys[i]]]
Unkeyed(keyed) == [i \in DOMAIN keyed |-> keyed[i].row]

\* ORDER BY col DESC NULLS LAST
NullsLast(rows, ob, plan) ==
    Sorted(SelectSeq(rows, LAMBDA r : IsSome(r[ob.col])), ob, plan)
    \o SelectSeq(IF plan = "heap" THEN rows ELSE Reverse(rows),
                 LAMBDA r : ~IsSome(r[ob.col]))

\* getWhaleFavoriteMarkets: active polymarket markets joined to the whale
\* trades on their condition id, most trades first
WhaleFavoritesQuery(d, limit, plan) ==
    LET Trades(m) == Cardinality({i \in DOMAIN d.whale_trades :
                                     d.whale_trades[i].conditionId = m.platformId})
        joined == SelectSeq(d.markets,
                            LAMBDA m : /\ m.platform = "polymarket"
                                       /\ m.status = "active"
                                       /\ Trades(m) > 0)
        counts == [i \in DOMAIN joined |-> Some(Trades(joined[i]))]
    IN  [rows |-> Take(Unkeyed(Sorted(Keyed(joined, counts),
                                      [col |-> "key", dir |-> "desc"], plan)), limit),
         error |-> NoError]

\* the conditions of getClosingSoonMarkets that stand before the casts
ClosingSoonGuard(r) ==
    /\ r.status = "active"
    /\ IsSome(r.closeTime)
    /\ Val(r.closeTime) # <<>>
    /\ RegexMatches(Val(r.closeTime), Cooked(ClosingSoonPattern))

\* getClosingSoonMarkets' statement: the casts run for the rows the
\* conditions before them let through, and one failed cast fails the statement
ClosingSoonQuery(d, t, limit, plan) ==
    LET Cast(r) == ParseTimestamptz(Val(r.closeTime))
        guarded == SelectSeq(d.markets, ClosingSoonGuard)
        within == SelectSeq(guarded, LAMBDA r : /\ Val(Cast(r)) > t
                                                /\ Val(Cast(r)) <= t + 24)
    IN  IF \E i \in DOMAIN guarded : Cast(guarded[i]) = NONE
        THEN [rows |-> <<>>, error |-> InvalidTimestamp]
        ELSE [rows |-> Take(Unkeyed(Sorted(Keyed(within,
                                                 [i \in DOMAIN within |->
                                                     Cast(within[i])]),
                                           [col |-> "key", dir |-> "asc"], plan)),
                            limit),
              error |-> NoError]

\* mutant: the bounds of the interval left out
Near5050Where_Exclusive(r) ==
    /\ r.status = "active"
    /\ IsSome(r.yesPrice) /\ Val(r.yesPrice) > 45
    /\ IsSome(r.yesPrice) /\ Val(r.yesPrice) < 55

\* and(eq(status, "active"), gte(yesPrice, 0.45), lte(yesPrice, 0.55)); a
\* comparison with NULL is not true
Near5050Where(r) ==
    /\ r.status = "active"
    /\ IsSome(r.yesPrice) /\ Val(r.yesPrice) >= 45
    /\ IsSome(r.yesPrice) /\ Val(r.yesPrice) <= 55

Near5050Query(d, limit, plan) ==
    [rows |-> Take(Sorted(SelectSeq(d.markets, Near5050Where),
                          [col |-> "volume", dir |-> "desc"], plan), limit),
     error |-> NoError]

\* ABS(COALESCE(mp.price_gap, 0)) >= 0.03
HighArbPair(mp) == Abs(Coalesce(mp.priceGap, 0)) >= 3

\* getHighArbMarkets: the distinct active markets on either side of such a pair
HighArbQuery(d, limit, plan) ==
    LET OnPair(m, mp) == \/ mp.polymarketMarketId = Some(m.id)
                         \/ mp.kalshiMarketId = Some(m.id)
        joined == SelectSeq(d.markets,
                     LAMBDA m : /\ \E i \in DOMAIN d.market_pairs :
                                      /\ OnPair(m, d.market_pairs[i])
                                      /\ HighArbPair(d.market_pairs[i])
                                /\ m.status = "active")
    IN  [rows |-> Take(NullsLast(joined, [col |-> "volume", dir |-> "desc"], plan),
                       limit),
         error |-> NoError]

\* WHERE timestamp IS NOT NULL AND timestamp != ''
Stamped(s) == IsSome(s.timestamp) /\ Val(s.timestamp) # <<>>

\* mutant: day_ago without its bound on the timestamp
DayAgoBound_Dropped(stamp, t) == TRUE

\* timestamp::timestamptz <= NOW() - INTERVAL '24 hours'
DayAgoBound(stamp, t) == stamp <= t - 24

\* DISTINCT ON (market_id) ... ORDER BY market_id, timestamp::timestamptz DESC:
\* of the snapshots given, the one of market id with the greatest timestamp;
\* among equal timestamps the plan decides
NewestOf(snaps, id, plan) ==
    LET own == SelectSeq(snaps, LAMBDA s : s.marketId = id)
        scan == IF plan = "heap" THEN own ELSE Reverse(own)
        Stamp(s) == Val(ParseTimestamptz(Val(s.timestamp)))
    IN  IF own = <<>> THEN NONE
        ELSE Some(scan[CHOOSE i \in DOMAIN scan :
                          /\ \A j \in DOMAIN scan : Stamp(scan[j]) <= Stamp(scan[i])
                          /\ \A j \in 1..(i - 1) : Stamp(scan[j]) < Stamp(scan[i])])

\* getHottestMarkets' statement: latest and day_ago cast every stamped
\* snapshot, and one failed cast fails the statement
HottestQuery(d, t, limit, plan) ==
    LET stamped == SelectSeq(d.price_snapshots, Stamped)
        Stamp(s) == ParseTimestamptz(Val(s.timestamp))
        old == SelectSeq(stamped, LAMBDA s : DayAgoBound(Val(Stamp(s)), t))
        Latest(m) == NewestOf(stamped, m.id, plan)
        DayAgo(m) == NewestOf(old, m.id, plan)
        joined == SelectSeq(d.markets,
                     LAMBDA m : /\ IsSome(Latest(m)) /\ IsSome(DayAgo(m))
                                /\ m.status = "active")
        Move(m) == Some(Abs(Coalesce(Val(Latest(m)).yesPrice, 0)
                            - Coalesce(Val(DayAgo(m)).yesPrice, 0)))
    IN  IF \E i \in DOMAIN stamped : Stamp(stamped[i]) = NONE
        THEN [rows |-> <<>>, error |-> InvalidTimestamp]
        ELSE [rows |-> Take(Unkeyed(Sorted(Keyed(joined,
                                                 [i \in DOMAIN joined |->
                                                     Move(joined[i])]),
                                           [col |-> "key", dir |-> "desc"], plan)),
                            limit),
              error |-> NoError]

\* mutant: the default branch of the dispatcher runs a filter
SmartDispatch_DefaultRuns(filterKey) ==
    CASE filterKey = "whale_favorites" -> "getWhaleFavoriteMarkets"
      [] filterKey = "closing_soon" -> "getClosingSoonMarkets"
      [] filterKey = "near_5050" -> "getNear5050Markets"
      [] filterKey = "high_arb" -> "getHighArbMarkets"
      [] filterKey = "hottest_24h" -> "getHottestMarkets"
      [] OTHER -> "getNear5050Markets"

\* the switch of getSmartFilteredMarkets: the function a key runs, "none"
\* for the default branch
SmartDispatch(filterKey) ==
    CASE filterKey = "whale_favorites" -> "getWhaleFavoriteMarkets"
      [] filterKey = "closing_soon" -> "getClosingSoonMarkets"
      [] filterKey = "near_5050" -> "getNear5050Markets"
      [] filterKey = "high_arb" -> "getHighArbMarkets"
      [] filterKey = "hottest_24h" -> "getHottestMarkets"
      [] OTHER -> "none"

\* the statement of fn as the store runs it, or as the network fails it
SmartStatement(fn, d, t, limit, up, plan) ==
    IF ~up THEN [rows |-> <<>>, error |-> StoreUnreachable]
    ELSE CASE fn = "getWhaleFavoriteMarkets" -> WhaleFavoritesQuery(d, limit, plan)
           [] fn = "getClosingSoonMarkets" -> ClosingSoonQuery(d, t, limit, plan)
           [] fn = "getNear5050Markets" -> Near5050Query(d, limit, plan)
           [] fn = "getHighArbMarkets" -> HighArbQuery(d, limit, plan)
           [] fn = "getHottestMarkets" -> HottestQuery(d, t, limit, plan)

\* the functions whose statement stands in try { } catch { return [] }
CatchesAll == {"getClosingSoonMarkets", "getHottestMarkets"}

\* a page calls getSmartFilteredMarkets(filterKey, limit); the default branch
\* returns [] at once, every other sends one statement
SmartCall(filterKey, limit) ==
    /\ call.pc = "idle"
    /\ LET fn == SmartDispatch(filterKey)
       IN  call' = [pc |-> IF fn = "none" THEN "returned" ELSE "querying",
                    filterKey |-> filterKey, limit |-> limit, fn |-> fn,
                    statements |-> IF fn = "none" THEN 0 ELSE 1,
                    result |-> <<>>, thrown |-> NoError, caught |-> NoError]
    /\ UNCHANGED <<db, now, req, commits>>

\* the statement settles: its rows are returned, its error is thrown, or
\* caught and turned into [] (caught keeps the error the catch block saw)
SmartSettle(up, plan) ==
    /\ call.pc = "querying"
    /\ LET r == SmartStatement(call.fn, db, now, call.limit, up, plan)
           caught == r.error # NoError /\ call.fn \in CatchesAll
       IN  call' = [call EXCEPT
                       !.pc = IF r.error = NoError \/ caught
                              THEN "returned" ELSE "threw",
                       !.result = IF caught THEN <<>> ELSE r.rows,
                       !.thrown = IF caught THEN NoError ELSE r.error,
                       !.caught = IF caught THEN r.error ELSE NoError]
    /\ UNCHANGED <<db, now, req, commits>>

SmartRendered ==
    /\ call.pc \in {"returned", "threw"}
    /\ call' = IdleCall
    /\ UNCHANGED <<db, now, req, commits>>

\* January 2025, day 1..9, as the collector writes a date
Day(n) ==
    <<"2", "0", "2", "5", "-", "0", "1", "-", "0",
      CHOOSE ch \in Digits : DigitVal(ch) = n>>
Tbd == <<"T", "B", "D">>
Feb30 == <<"2", "0", "2", "5", "-", "0", "2", "-", "3", "0">>
LettersD == <<"d", "d", "d", "d", "-", "d", "d", "-", "d", "d">>

SmartMarket(id, platform, status, yesPrice, volume, closeTime) ==
    [id |-> id, platform |-> platform, platformId |-> id, title |-> Fed,
     category |-> "Politics", status |-> status, yesPrice |-> yesPrice,
     volume |-> volume, closeTime |-> closeTime]

SmartPair(id, kalshi, polymarket, priceGap) ==
    [id |-> id, kalshiMarketId |-> kalshi, polymarketMarketId |-> polymarket,
     priceGap |-> priceGap]

SmartSnapshot(id, marketId, yesPrice, timestamp) ==
    [id |-> id, marketId |-> marketId, yesPrice |-> yesPrice, timestamp |-> timestamp]

SmartTrade(id, conditionId) ==
    [id |-> id, traderId |-> Some(1), conditionId |-> conditionId,
     usdcSize |-> Some(9), transactionHash |-> id, tradeTimestamp |-> Some(0)]

\* a store for the smart filters; closeTime8 is the close time of market 8 and
\* stamp9 the timestamp of snapshot 9
SmartStore(closeTime8, stamp9) ==
    [SeedStore(0) EXCEPT
        !.markets =
            <<SmartMarket(1, "kalshi", "active", Some(45), Some(3), Some(Day(2))),
              SmartMarket(2, "polymarket", "active", Some(55), NONE, Some(Day(3))),
              SmartMarket(3, "kalshi", "active", Some(44), Some(5), NONE),
              SmartMarket(4, "polymarket", "active", Some(56), Some(1), Some(<<>>)),
              SmartMarket(5, "kalshi", "resolved", Some(50), Some(9), Some(Day(2))),
              SmartMarket(6, "polymarket", "active", NONE, Some(2), Some(Tbd)),
              SmartMarket(7, "kalshi", "active", Some(50), Some(3), Some(Day(1))),
              SmartMarket(8, "polymarket", "active", Some(50), Some(7), closeTime8)>>,
        !.market_pairs =
            <<SmartPair(1, Some(1), Some(2), Some(7)),
              SmartPair(2, Some(1), Some(4), Some(-3)),
              SmartPair(3, Some(3), Some(6), Some(2)),
              SmartPair(4, Some(7), Some(8), NONE),
              SmartPair(5, Some(5), Some(2), Some(5)),
              SmartPair(6, NONE, Some(6), Some(4))>>,
        !.price_snapshots =
            <<SmartSnapshot(1, 1, Some(50), Some(Day(1))),
              SmartSnapshot(2, 1, Some(45), Some(Day(2))),
              SmartSnapshot(3, 1, Some(60), Some(Day(3))),
              SmartSnapshot(4, 2, Some(40), Some(Day(3))),
              SmartSnapshot(5, 3, NONE, Some(Day(1))),
              SmartSnapshot(6, 3, Some(30), Some(Day(3))),
              SmartSnapshot(7, 5, Some(10), Some(Day(1))),
              SmartSnapshot(8, 5, Some(90), Some(Day(3))),
              SmartSnapshot(9, 7, Some(50), stamp9),
              SmartSnapshot(10, 7, Some(52), Some(Day(3))),
              SmartSnapshot(11, 8, Some(20), Some(Day(1))),
              SmartSnapshot(12, 8, Some(35), Some(Day(2)))>>,
        !.whale_trades =
            <<SmartTrade(1, 2), SmartTrade(2, 4), SmartTrade(3, 2), SmartTrade(4, 1),
              SmartTrade(5, 6)>>]

CloseTimes8 == {Some(Day(2)), Some(Feb30), Some(LettersD)}
Stamps9 == {Some(Day(2)), Some(<<>>), NONE, Some(Tbd)}
SmartNows == {0, 24, 36, 48}
SmartKeys ==
    {"whale_favorites", "closing_soon", "near_5050", "high_arb", "hottest_24h",
     "unknown_key", ""}
SmartLimits == {2, DEFAULT_LIMIT}

InitSmart ==
    /\ \E closeTime8 \in CloseTimes8, stamp9 \in Stamps9 :
          db = SmartStore(closeTime8, stamp9)
    /\ now \in SmartNows
    /\ req = [c \in Clients |-> IdleReq]
    /\ call = IdleCall
    /\ commits = 0

NextSmart ==
    \/ \E filterKey \in SmartKeys, limit \in SmartLimits : SmartCall(filterKey, limit)
    \/ \E up \in BOOLEAN, plan \in Plans : SmartSettle(up, plan)
    \/ SmartRendered

SpecSmart == InitSmart /\ [][NextSmart]_vars

(***************************************************************************)
(* Price history (getPriceHistory, getPriceHistoryWithRange).  The         *)
(* timestamp column is text; the range bound and the ordering compare      *)
(* texts, character by character.                                          *)
(***************************************************************************)
\* the code point of a character that occurs in a timestamp text
CharCode(ch) ==
    CASE ch = " " -> 32 [] ch = "+" -> 43 [] ch = "-" -> 45 [] ch = "." -> 46
      [] ch \in Digits -> 48 + DigitVal(ch)
      [] ch = ":" -> 58 [] ch = "B" -> 66 [] ch = "D" -> 68 [] ch = "T" -> 84
      [] ch = "Z" -> 90

\* a <= b for two texts, as the store compares them
RECURSIVE TextLeq(_, _)
TextLeq(a, b) ==
    IF a = <<>> THEN TRUE
    ELSE IF b = <<>> THEN FALSE
    ELSE IF Head(a) = Head(b) THEN TextLeq(Tail(a), Tail(b))
    ELSE CharCode(Head(a)) < CharCode(Head(b))

Digit(n) == CHOOSE ch \in Digits : DigitVal(ch) = n
TwoDigits(n) == <<Digit(n \div 10), Digit(n % 10)>>

\* new Date(ms).toISOString() for an hour h of the clock within 2025:
\* YYYY-MM-DDTHH:mm:ss.sssZ
ToISOString(h) ==
    LET dayOfYear == h \div 24
        month == CHOOSE m \in 1..12 :
                     DaysBefore[m] <= dayOfYear /\ dayOfYear < DaysBefore[m] + DaysIn[m]
    IN  <<"2", "0", "2", "5", "-">> \o TwoDigits(month) \o <<"-">>
        \o TwoDigits(dayOfYear - DaysBefore[month] + 1) \o <<"T">>
        \o TwoDigits(h % 24) \o <<":", "0", "0", ":", "0", "0", ".", "0", "0", "0", "Z">>

\* the names every object inherits from Object.prototype
ObjectPrototype ==
    {"constructor", "toString", "toLocaleString", "valueOf", "hasOwnProperty",
     "isPrototypeOf", "propertyIsEnumerable", "__proto__"}

Number(n) == [type |-> "number", value |-> n]
Undefined == [type |-> "undefined"]
Inherited == [type |-> "object"]

\* RANGE_HOURS[range]: the object's own entry, else what the prototype
\* chain holds under that name, else undefined
RANGE_HOURS(range) ==
    CASE range = "24h" -> Number(24)
      [] range = "7d" -> Number(168)
      [] range = "30d" -> Number(720)
      [] range \in ObjectPrototype -> Inherited
      [] OTHER -> Undefined

\* if (hours): a number other than 0, or any object or function
TruthyValue(v) ==
    \/ v.type = "number" /\ v.value # 0
    \/ v.type = "object"

RangeError == <<"RangeError:", "Invalid", "time", "value">>

\* new Date(Date.now() - hours * 60 * 60 * 1000).toISOString(): the product
\* with anything but a number is NaN, and toISOString throws on the
\* invalid date
Cutoff(hours, t) ==
    IF hours.type = "number"
    THEN [text |-> ToISOString(t - hours.value), error |-> NoError]
    ELSE [text |-> <<>>, error |-> RangeError]

\* the conditions getPriceHistoryWithRange builds: the market, and the
\* cutoff where the range names one; cutoff NONE means no lower bound
RangeConditions(range, t) ==
    IF Truthy(range) /\ Val(range) # "all"
    THEN LET hours == RANGE_HOURS(Val(range))
         IN  IF TruthyValue(hours)
             THEN LET c == Cutoff(hours, t)
                  IN  [cutoff |-> IF c.error = NoError THEN Some(c.text) ELSE NONE,
                       error |-> c.error]
             ELSE [cutoff |-> NONE, error |-> NoError]
    ELSE [cutoff |-> NONE, error |-> NoError]

\* gte(priceSnapshots.timestamp, cutoff): NULL compares to nothing
GteTimestamp(s, cutoff) == IsSome(s.timestamp) /\ TextLeq(cutoff, Val(s.timestamp))

\* a sorts at or before b under ORDER BY timestamp DESC: NULL first, then
\* the greater text
DescBefore(a, b) ==
    \/ ~IsSome(a.timestamp)
    \/ IsSome(b.timestamp) /\ TextLeq(Val(b.timestamp), Val(a.timestamp))

\* ORDER BY timestamp DESC over the rows in the order the plan scans them
RECURSIVE OrderByTimestampDesc(_)
OrderByTimestampDesc(scan) ==
    IF scan = <<>> THEN <<>>
    ELSE LET i == CHOOSE i \in DOMAIN scan :
                      /\ \A j \in DOMAIN scan : DescBefore(scan[i], scan[j])
                      /\ \A j \in 1..(i - 1) : ~DescBefore(scan[j], scan[i])
         IN  <<scan[i]>>
             \o OrderByTimestampDesc(SubSeq(scan, 1, i - 1) \o SubSeq(scan, i + 1, Len(scan)))

\* select().from(priceSnapshots).where(and(...conditions))
\*   .orderBy(desc(priceSnapshots.timestamp)).limit(limit)
PriceHistoryWithRangeQuery(d, marketId, cutoff, limit, plan) ==
    LET scan == IF plan = "heap" THEN d.price_snapshots ELSE Reverse(d.price_snapshots)
        hits == SelectSeq(scan, LAMBDA s :
                    /\ s.marketId = marketId
                    /\ IsSome(cutoff) => GteTimestamp(s, Val(cutoff)))
    IN  [rows |-> Take(OrderByTimestampDesc(hits), limit), error |-> NoError]

\* getPriceHistory: select().from(priceSnapshots).where(eq(marketId))
\*   .orderBy(desc(priceSnapshots.timestamp)).limit(limit)
PriceHistoryQuery(d, marketId, limit, plan) ==
    LET scan == IF plan = "heap" THEN d.price_snapshots ELSE Reverse(d.price_snapshots)
        hits == SelectSeq(scan, LAMBDA s : s.marketId = marketId)
    IN  [rows |-> Take(OrderByTimestampDesc(hits), limit), error |-> NoError]

\* getPriceHistoryWithRange(marketId, range, limit) up to its await: the
\* conditions are built, which may throw before any statement is sent
HistoryCall(marketId, range, limit) ==
    /\ call.pc = "idle"
    /\ LET c == RangeConditions(range, now)
       IN  call' = [pc |-> IF c.error = NoError THEN "querying" ELSE "threw",
                    fn |-> "getPriceHistoryWithRange",
                    marketId |-> marketId, range |-> range, limit |-> limit,
                    cutoff |-> c.cutoff,
                    statements |-> IF c.error = NoError THEN 1 ELSE 0,
                    result |-> <<>>, plan |-> "heap", thrown |-> c.error]
    /\ UNCHANGED <<db, now, req, commits>>

\* the statement settles: its rows are returned or its error propagates
HistorySettle(up, plan) ==
    /\ call.pc = "querying"
    /\ call.fn = "getPriceHistoryWithRange"
    /\ LET r == IF up
               THEN PriceHistoryWithRangeQuery(db, call.marketId, call.cutoff,
                                               call.limit, plan)
               ELSE [rows |-> <<>>, error |-> StoreUnreachable]
       IN  call' = [call EXCEPT
                       !.pc = IF r.error = NoError THEN "returned" ELSE "threw",
                       !.result = r.rows, !.plan = plan, !.thrown = r.error]
    /\ UNCHANGED <<db, now, req, commits>>

HistoryRendered ==
    /\ call.pc \in {"returned", "threw"}
    /\ call' = IdleCall
    /\ UNCHANGED <<db, now, req, commits>>

\* a timestamp carrying a UTC offset: 2025-02-01T02:00:00+05:00, which is
\* 2025-01-31T21:00Z
Offset5 ==
    <<"2", "0", "2", "5", "-", "0", "2", "-", "0", "1", "T", "0", "2", ":", "0", "0",
      ":", "0", "0", "+", "0", "5", ":", "0", "0">>
Feb1 == <<"2", "0", "2", "5", "-", "0", "2", "-", "0", "1">>

\* the hours of the clock at 2025-01-03, 01-26, 01-30 04:00, 02-01, 02-01
\* 16:00, 02-02 and 02-02 12:00
Jan3 == 48
Jan26 == 600
Jan30 == 700
Feb1Midnight == 744
Feb1Afternoon == 760
Feb2Midnight == 768
Feb2Noon == 780

\* a store for the price history; stamp5 is the timestamp of snapshot 5
HistoryStore(stamp5) ==
    [SeedStore(0) EXCEPT
        !.markets =
            <<SmartMarket(1, "kalshi", "active", Some(45), Some(3), NONE),
              SmartMarket(2, "polymarket", "active", Some(55), NONE, NONE)>>,
        !.price_snapshots =
            <<SmartSnapshot(1, 1, Some(50), Some(ToISOString(Jan30))),
              SmartSnapshot(2, 1, Some(51), Some(ToISOString(Feb1Midnight))),
              SmartSnapshot(3, 1, Some(52), Some(ToISOString(Feb1Afternoon))),
              SmartSnapshot(4, 1, Some(53), Some(ToISOString(Feb1Afternoon))),
              SmartSnapshot(5, 1, Some(54), stamp5),
              SmartSnapshot(6, 2, Some(40), Some(ToISOString(Feb1Afternoon + 5))),
              SmartSnapshot(7, 1, Some(55), Some(ToISOString(Jan3))),
              SmartSnapshot(8, 1, Some(56), Some(ToISOString(Jan26 - 1))),
              SmartSnapshot(9, 2, Some(41), Some(ToISOString(Jan3 - 1)))>>]

Stamps5 ==
    {Some(ToISOString(Feb1Midnight - 1)), Some(Feb1), Some(Offset5), Some(Tbd),
     Some(<<>>), NONE}
HistoryNows == {Feb2Midnight, Feb2Noon}
HistoryMarkets == {1, 2, 3}
HistoryRanges ==
    {NONE, Some("all"), Some("24h"), Some("7d"), Some("30d"), Some("1h"), Some(""),
     Some("constructor"), Some("toString")}
HistoryLimits == {2, 500}

InitHistory ==
    /\ \E stamp5 \in Stamps5 : db = HistoryStore(stamp5)
    /\ now \in HistoryNows
    /\ req = [c \in Clients |-> IdleReq]
    /\ call = IdleCall
    /\ commits = 0

NextHistory ==
    \/ \E marketId \in HistoryMarkets, range \in HistoryRanges, limit \in HistoryLimits :
          HistoryCall(marketId, range, limit)
    \/ \E up \in BOOLEAN, plan \in Plans : HistorySettle(up, plan)
    \/ HistoryRendered

SpecHistory == InitHistory /\ [][NextHistory]_vars

(***************************************************************************)
(* Trader positions (getLatestTraderPositions): two statements, the        *)
(* second built from the answer to the first.                              *)
(***************************************************************************)
\* select MAX(snapshot_time) from trader_positions where trader_id = ..:
\* one row always; NULL when no row of the trader has a snapshot time
MaxSnapshotTime(d, traderId) ==
    LET times == {Val(d.trader_positions[i].snapshotTime) :
                     i \in {k \in DOMAIN d.trader_positions :
                               /\ d.trader_positions[k].traderId = Some(traderId)
                               /\ IsSome(d.trader_positions[k].snapshotTime)}}
    IN  [rows |-> <<[t |-> IF times = {} THEN NONE
                           ELSE Some(CHOOSE x \in times : \A y \in times : TextLeq(y, x))]>>,
         error |-> NoError]

\* mutant: the second statement without the snapshot time
PositionsAt_AnyTime(d, traderId, latestTime, plan) ==
    [rows |-> Sorted(SelectSeq(d.trader_positions,
                               LAMBDA p : p.traderId = Some(traderId)),
                     [col |-> "currentValue", dir |-> "desc"], plan),
     error |-> NoError]

\* select().from(traderPositions).where(and(eq(traderId), eq(snapshotTime,
\* latestTime))).orderBy(desc(currentValue))
PositionsAt(d, traderId, latestTime, plan) ==
    [rows |-> Sorted(SelectSeq(d.trader_positions,
                               LAMBDA p : /\ p.traderId = Some(traderId)
                                          /\ p.snapshotTime = Some(latestTime)),
                     [col |-> "currentValue", dir |-> "desc"], plan),
     error |-> NoError]

\* getLatestTraderPositions(traderId) up to its first await
PositionsCall(traderId) ==
    /\ call.pc = "idle"
    /\ call' = [pc |-> "max", fn |-> "getLatestTraderPositions",
                traderId |-> traderId, latestTime |-> NONE, result |-> <<>>,
                thrown |-> NoError, statements |-> 1,
                atMax |-> commits, atRows |-> commits]
    /\ UNCHANGED <<db, now, req, commits>>

\* the first statement settles: if (!latestTime) return [], else the second
\* statement is sent
PositionsMax(up) ==
    /\ call.pc = "max"
    /\ LET r == IF up THEN MaxSnapshotTime(db, call.traderId)
                ELSE [rows |-> <<>>, error |-> StoreUnreachable]
           latestTime == IF r.error = NoError THEN r.rows[1].t ELSE NONE
       IN  call' = [call EXCEPT
                       !.pc = IF r.error # NoError THEN "threw"
                              ELSE IF ~TruthyText(latestTime) THEN "returned"
                              ELSE "rows",
                       !.latestTime = latestTime,
                       !.thrown = r.error,
                       !.statements = IF r.error = NoError /\ TruthyText(latestTime)
                                      THEN 2 ELSE 1,
                       !.atMax = commits, !.atRows = commits]
    /\ UNCHANGED <<db, now, req, commits>>

\* the second statement settles
PositionsRows(up, plan) ==
    /\ call.pc = "rows"
    /\ LET r == IF up THEN PositionsAt(db, call.traderId, Val(call.latestTime), plan)
                ELSE [rows |-> <<>>, error |-> StoreUnreachable]
       IN  call' = [call EXCEPT
                       !.pc = IF r.error = NoError THEN "returned" ELSE "threw",
                       !.result = r.rows, !.thrown = r.error, !.atRows = commits]
    /\ UNCHANGED <<db, now, req, commits>>

PositionsRendered ==
    /\ call.pc \in {"returned", "threw"}
    /\ call' = IdleCall
    /\ UNCHANGED <<db, now, req, commits>>

SeedPosition(id, traderId, currentValue, snapshotTime) ==
    [id |-> id, traderId |-> traderId, currentValue |-> currentValue,
     snapshotTime |-> snapshotTime]

\* the external collector commits a snapshot of n positions of a trader,
\* stamped with the time of the commit, all rows at once
CollectorInsertSnapshot(traderId, n) ==
    /\ commits < MaxCommits
    /\ LET stamp == Some(ToISOString(Feb2Midnight + commits + 1))
           first == Len(db.trader_positions) + 1
       IN  db' = [db EXCEPT !.trader_positions =
                     @ \o [i \in 1..n |->
                              SeedPosition(first + i - 1, Some(traderId), Some(i), stamp)]]
    /\ commits' = commits + 1
    /\ UNCHANGED <<now, req, call>>

\* a store for the positions: trader 1 has two snapshots and rows without a
\* time, trader 2 one snapshot, trader 3 (stamp7 apart) none
PositionsStore(stamp7) ==
    [SeedStore(0) EXCEPT
        !.traders = [i \in 1..3 |-> SeedTrader(i)],
        !.trader_positions =
            <<SeedPosition(1, Some(1), Some(3), Some(ToISOString(Jan30))),
              SeedPosition(2, Some(1), Some(8), Some(ToISOString(Jan30))),
              SeedPosition(3, Some(1), NONE, Some(ToISOString(Feb1Midnight))),
              SeedPosition(4, Some(1), Some(5), Some(ToISOString(Feb1Midnight))),
              SeedPosition(5, Some(1), Some(5), Some(ToISOString(Feb1Midnight))),
              SeedPosition(6, Some(2), Some(1), Some(ToISOString(Jan26))),
              SeedPosition(7, Some(3), Some(2), stamp7),
              SeedPosition(8, NONE, Some(9), Some(ToISOString(Feb1Afternoon))),
              SeedPosition(9, Some(1), Some(7), NONE)>>]

Stamps7 == {NONE, Some(<<>>), Some(ToISOString(Jan3))}
PositionTraders == 1..4
SnapshotSizes == {1, 2}

InitPositions ==
    /\ \E stamp7 \in Stamps7 : db = PositionsStore(stamp7)
    /\ now = Feb2Midnight
    /\ req = [c \in Clients |-> IdleReq]
    /\ call = IdleCall
    /\ commits = 0

NextPositions ==
    \/ \E traderId \in PositionTraders : PositionsCall(traderId)
    \/ \E up \in BOOLEAN : PositionsMax(up)
    \/ \E up \in BOOLEAN, plan \in Plans : PositionsRows(up, plan)
    \/ PositionsRendered
    \/ \E traderId \in {1, 3}, n \in SnapshotSizes : CollectorInsertSnapshot(traderId, n)

SpecPositions == InitPositions /\ [][NextPositions]_vars

(***************************************************************************)
(* Cross-platform pairs (getAllPairs).  Gaps are in cents.                 *)
(***************************************************************************)
NaN == [type |-> "NaN"]

\* LEFT JOIN markets ON mp.<side>_market_id = markets.id: the market, or
\* NULLs where the pair names none
LeftJoinMarket(d, id) ==
    IF IsSome(id) /\ \E i \in DOMAIN d.markets : d.markets[i].id = Val(id)
    THEN Some(d.markets[CHOOSE i \in DOMAIN d.markets : d.markets[i].id = Val(id)])
    ELSE NONE

\* one row of the SELECT list: mp.* and the columns of the two markets
PairRow(d, mp) ==
    LET km == LeftJoinMarket(d, mp.kalshiMarketId)
        pm == LeftJoinMarket(d, mp.polymarketMarketId)
    IN  [id |-> mp.id, price_gap |-> mp.priceGap,
         kalshi_market_id |-> mp.kalshiMarketId,
         polymarket_market_id |-> mp.polymarketMarketId,
         kalshi_yes |-> IF IsSome(km) THEN Val(km).yesPrice ELSE NONE,
         poly_yes |-> IF IsSome(pm) THEN Val(pm).yesPrice ELSE NONE]

\* ABS(mp.price_gap), NULL for a NULL gap
AbsGap(mp) == IF IsSome(mp.priceGap) THEN Some(Abs(Val(mp.priceGap))) ELSE NONE

\* mutant: the where clause taken for every minGap given, 0 included
PairsWhere_ZeroFilters(mp, minGap) ==
    (IsSome(minGap) /\ Val(minGap).type = "number")
    => IsSome(mp.priceGap) /\ Abs(Val(mp.priceGap)) >= Val(minGap).value

\* minGap ? sql`WHERE ABS(mp.price_gap) >= ${minGap}` : sql``
PairsWhere(mp, minGap) ==
    (IsSome(minGap) /\ TruthyValue(Val(minGap)))
    => IsSome(mp.priceGap) /\ Abs(Val(mp.priceGap)) >= Val(minGap).value

\* the statement of getAllPairs: ORDER BY ABS(mp.price_gap) DESC puts a
\* NULL gap first
AllPairsQuery(d, minGap, plan) ==
    LET hits == SelectSeq(d.market_pairs, LAMBDA mp : PairsWhere(mp, minGap))
        keyed == Keyed([i \in DOMAIN hits |-> PairRow(d, hits[i])],
                       [i \in DOMAIN hits |-> AbsGap(hits[i])])
    IN  [rows |-> Unkeyed(Sorted(keyed, [col |-> "key", dir |-> "desc"], plan)),
         error |-> NoError]

\* getAllPairs(minGap) up to its await
PairsCall(minGap) ==
    /\ call.pc = "idle"
    /\ call' = [pc |-> "querying", fn |-> "getAllPairs", minGap |-> minGap,
                statements |-> 1, result |-> <<>>, thrown |-> NoError]
    /\ UNCHANGED <<db, now, req, commits>>

\* the statement settles: return result.rows, or the error propagates
PairsSettle(up, plan) ==
    /\ call.pc = "querying"
    /\ call.fn = "getAllPairs"
    /\ LET r == IF up THEN AllPairsQuery(db, call.minGap, plan)
                ELSE [rows |-> <<>>, error |-> StoreUnreachable]
       IN  call' = [call EXCEPT
                       !.pc = IF r.error = NoError THEN "returned" ELSE "threw",
                       !.result = r.rows, !.thrown = r.error]
    /\ UNCHANGED <<db, now, req, commits>>

PairsRendered ==
    /\ call.pc \in {"returned", "threw"}
    /\ call' = IdleCall
    /\ UNCHANGED <<db, now, req, commits>>

\* a store for the pairs; gap4 and gap6 are the gaps of pairs 4 and 6
PairsStore(gap4, gap6) ==
    [SmartStore(NONE, NONE) EXCEPT
        !.market_pairs =
            <<SmartPair(1, Some(1), Some(2), Some(7)),
              SmartPair(2, Some(1), Some(4), Some(-3)),
              SmartPair(3, Some(3), Some(6), Some(2)),
              SmartPair(4, Some(7), Some(8), gap4),
              SmartPair(5, Some(5), Some(2), Some(5)),
              SmartPair(6, NONE, Some(6), gap6)>>]

Gaps4 == {NONE, Some(0), Some(-7)}
Gaps6 == {NONE, Some(10)}
\* minGap as the page passes it: omitted, parseFloat of the parameter (NaN
\* for a text that is no number)
MinGaps ==
    {NONE, Some(Number(0)), Some(Number(3)), Some(Number(5)), Some(Number(10)),
     Some(Number(-1)), Some(NaN)}

InitPairs ==
    /\ \E gap4 \in Gaps4, gap6 \in Gaps6 : db = PairsStore(gap4, gap6)
    /\ now = 0
    /\ req = [c \in Clients |-> IdleReq]
    /\ call = IdleCall
    /\ commits = 0

NextPairs ==
    \/ \E minGap \in MinGaps : PairsCall(minGap)
    \/ \E up \in BOOLEAN, plan \in Plans : PairsSettle(up, plan)
    \/ PairsRendered

SpecPairs == InitPairs /\ [][NextPairs]_vars

(***************************************************************************)
(* The leaderboard (getTopTraders): a row fetch and a count under          *)
(* Promise.all, as in getMarkets.                                          *)
(***************************************************************************)
\* col = orderBy === "total_volume" ? traders.totalVolume : traders.totalPnl
RankedColumn(orderBy) ==
    IF Default(orderBy, "total_pnl") = "total_volume" THEN "totalVolume" ELSE "totalPnl"

\* mutant: the row fetch without its where clause
TradersWhere_NullsKept(t, col) == TRUE

\* where(isNotNull(col))
TradersWhere(t, col) == IsSome(t[col])

\* select().from(traders).where(isNotNull(col)).orderBy(desc(col))
\*   .limit(PAGE_SIZE).offset(offset)
SelectTraders(d, col, limit, offset, plan) ==
    IF offset < 0 THEN [rows |-> <<>>, error |-> NegativeOffset]
    ELSE LET all == Sorted(SelectSeq(d.traders, LAMBDA t : TradersWhere(t, col)),
                           [col |-> col, dir |-> "desc"], plan)
             last == IF offset + limit < Len(all) THEN offset + limit ELSE Len(all)
         IN  [rows |-> SubSeq(all, offset + 1, last), error |-> NoError]

\* select({count: count(*)}).from(traders).where(isNotNull(col))
CountTraders(d, col) ==
    [rows |-> <<[count |-> Len(SelectSeq(d.traders, LAMBDA t : IsSome(t[col])))]>>,
     error |-> NoError]

\* the leaderboard calls getTopTraders(orderBy, page): both queries are sent
TopTradersCall(orderBy, page) ==
    /\ call.pc = "idle"
    /\ call' = [IdleCall EXCEPT !.pc = "pending",
                                !.params = [fn |-> "getTopTraders",
                                            orderBy |-> orderBy, page |-> page],
                                !.atCall = commits]
    /\ UNCHANGED <<db, now, req, commits>>

\* the store runs the row fetch
TradersRowFetch(up, plan) ==
    /\ call.pc = "pending" /\ ~call.dataDone
    /\ LET p == call.params
           r == IF up
                THEN SelectTraders(db, RankedColumn(p.orderBy), PAGE_SIZE,
                                   Offset(Default(p.page, 1)), plan)
                ELSE [rows |-> <<>>, error |-> StoreUnreachable]
       IN  call' = Settle([call EXCEPT !.dataDone = TRUE, !.data = r.rows,
                                       !.thrown = r.error, !.atData = commits])
    /\ UNCHANGED <<db, now, req, commits>>

\* the store runs the count query
TradersCountQuery(up) ==
    /\ call.pc = "pending" /\ ~call.countDone
    /\ LET r == IF up THEN CountTraders(db, RankedColumn(call.params.orderBy))
                ELSE [rows |-> <<>>, error |-> StoreUnreachable]
       IN  call' = Settle([call EXCEPT !.countDone = TRUE, !.countResult = r.rows,
                                       !.thrown = r.error, !.atCount = commits])
    /\ UNCHANGED <<db, now, req, commits>>

LeaderboardRendered ==
    /\ call.pc \in {"returned", "threw"}
    /\ call' = IdleCall
    /\ UNCHANGED <<db, now, req, commits>>

\* trader i as the collector writes it: either aggregate may be unknown,
\* several traders share a value, a P&L may be negative
RankedTrader(i) ==
    [id |-> i,
     proxyWallet |-> i,
     totalPnl |-> IF i % 3 = 0 THEN NONE ELSE Some((i % 5) - 2),
     totalVolume |-> IF i % 7 = 0 THEN NONE ELSE Some(10 * (i % 4))]

MaxRanked == 104
TraderCounts == {0, 3, PAGE_SIZE + 26, MaxRanked}
OrderBys == {NONE, Some("total_pnl"), Some("total_volume")}
LeaderboardPages == {NONE, Some(0), Some(2), Some(3)}

InitTraders ==
    /\ \E n \in TraderCounts :
          db = [SeedStore(0) EXCEPT !.traders = [i \in 1..n |-> RankedTrader(i)]]
    /\ now = 0
    /\ req = [c \in Clients |-> IdleReq]
    /\ call = IdleCall
    /\ commits = 0

NextTraders ==
    \/ \E orderBy \in OrderBys, page \in LeaderboardPages : TopTradersCall(orderBy, page)
    \/ \E up \in BOOLEAN, plan \in Plans : TradersRowFetch(up, plan)
    \/ \E up \in BOOLEAN : TradersCountQuery(up)
    \/ LeaderboardRendered

SpecTraders == InitTraders /\ [][NextTraders]_vars

(***************************************************************************)
(* Detail pages (MarketDetailPage, TraderProfilePage): one entity looked   *)
(* up by the identifier in the path.                                       *)
(***************************************************************************)
\* the value of the longest run of digits t begins with, continuing acc
RECURSIVE DigitsValue(_, _)
DigitsValue(t, acc) ==
    IF t # <<>> /\ Head(t) \in Digits
    THEN DigitsValue(Tail(t), 10 * acc + DigitVal(Head(t)))
    ELSE acc

\* parseInt(t): an optional sign and the digits that follow, whatever comes
\* after them; NaN where no digit follows
ParseInt(t) ==
    LET signed == t # <<>> /\ Head(t) \in {"-", "+"}
        body == IF signed THEN Tail(t) ELSE t
    IN  IF body = <<>> \/ Head(body) \notin Digits THEN NaN
        ELSE IF signed /\ Head(t) = "-" THEN Number(0 - DigitsValue(body, 0))
        ELSE Number(DigitsValue(body, 0))

InvalidInteger ==
    <<"NeonDbError:", "invalid", "input", "syntax", "for", "type", "integer:", "NaN">>

\* select().from(markets).where(eq(markets.id, id)).limit(1): the store
\* reads the parameter as an integer, which the text NaN is not
MarketByIdQuery(d, id) ==
    IF id.type # "number" THEN [rows |-> <<>>, error |-> InvalidInteger]
    ELSE [rows |-> Take(SelectSeq(d.markets, LAMBDA m : m.id = id.value), 1),
          error |-> NoError]

\* select().from(traders).where(eq(traders.proxyWallet, wallet)).limit(1)
TraderByWalletQuery(d, wallet) ==
    [rows |-> Take(SelectSeq(d.traders, LAMBDA t : t.proxyWallet = wallet), 1),
     error |-> NoError]

\* result[0] ?? null
FirstOrNull(rows) == IF rows = <<>> THEN NONE ELSE Some(rows[1])

\* a request for /markets/<segment>: generateMetadata runs first and calls
\* getMarketById(parseInt(id))
MarketPageRequest(segment) ==
    /\ call.pc = "idle"
    /\ call' = [pc |-> "metadata", fn |-> "getMarketById", segment |-> segment,
                id |-> ParseInt(segment), found |-> NONE, outcome |-> "pending",
                statements |-> 1, thrown |-> NoError]
    /\ UNCHANGED <<db, now, req, commits>>

\* a request for /traders/<wallet>: generateMetadata calls getTraderByWallet
TraderPageRequest(wallet) ==
    /\ call.pc = "idle"
    /\ call' = [pc |-> "metadata", fn |-> "getTraderByWallet", segment |-> wallet,
                id |-> Number(wallet), found |-> NONE, outcome |-> "pending",
                statements |-> 1, thrown |-> NoError]
    /\ UNCHANGED <<db, now, req, commits>>

\* the statement of the lookup as the store runs it, or as the network
\* fails it
LookupStatement(c, d, up) ==
    IF ~up THEN [rows |-> <<>>, error |-> StoreUnreachable]
    ELSE IF c.fn = "getMarketById" THEN MarketByIdQuery(d, c.id)
    ELSE TraderByWalletQuery(d, c.id.value)

\* the lookup of generateMetadata settles: the title is taken from the row
\* or a fallback, and the page component calls the lookup again
MetadataSettle(up) ==
    /\ call.pc = "metadata"
    /\ LET r == LookupStatement(call, db, up)
       IN  call' = IF r.error # NoError
                   THEN [call EXCEPT !.pc = "threw", !.thrown = r.error,
                                     !.outcome = "error"]
                   ELSE [call EXCEPT !.pc = "page", !.statements = 2]
    /\ UNCHANGED <<db, now, req, commits>>

\* the lookup of the page component settles: if (!found) notFound(), else
\* the page goes on to render the entity
PageSettle(up) ==
    /\ call.pc = "page"
    /\ LET r == LookupStatement(call, db, up)
           found == FirstOrNull(r.rows)
       IN  call' = IF r.error # NoError
                   THEN [call EXCEPT !.pc = "threw", !.thrown = r.error,
                                     !.outcome = "error"]
                   ELSE [call EXCEPT !.pc = "returned", !.found = found,
                                     !.outcome = IF IsSome(found) THEN "rendered"
                                                 ELSE "notFound"]
    /\ UNCHANGED <<db, now, req, commits>>

DetailRendered ==
    /\ call.pc \in {"returned", "threw"}
    /\ call' = IdleCall
    /\ UNCHANGED <<db, now, req, commits>>

\* the path segments requested: the id of a market, ids of none, and texts
\* that are no number
Segments ==
    {<<"1">>, <<"3">>, <<"9", "9">>, <<"-", "1">>, <<>>, <<"T", "B", "D">>,
     <<"1", "T">>, <<"9", "T">>}
Wallets == 1..(NumTraders + 1)
DetailCounts == {0, 1, 3}

InitDetail ==
    /\ \E n \in DetailCounts : db = SeedStore(n)
    /\ now = 0
    /\ req = [c \in Clients |-> IdleReq]
    /\ call = IdleCall
    /\ commits = 0

NextDetail ==
    \/ \E segment \in Segments : MarketPageRequest(segment)
    \/ \E wallet \in Wallets : TraderPageRequest(wallet)
    \/ \E up \in BOOLEAN : MetadataSettle(up)
    \/ \E up \in BOOLEAN : PageSettle(up)
    \/ DetailRendered

SpecDetail == InitDetail /\ [][NextDetail]_vars

(***************************************************************************)
(* Agent runs (getLatestRunPerAgent, getDashboardStats).                   *)
(***************************************************************************)
LatestRunLimit == 50
DashboardRunLimit == 10

\* select().from(agentLogs).orderBy(desc(agentLogs.id)).limit(limit): ids
\* are serial, so the table read backwards
RecentAgentLogs(d, limit) == Take(Reverse(d.agent_logs), limit)

\* recent.filter(..) with the Set seen: the first row of each agent name,
\* in the order given
RECURSIVE FirstPerAgent(_, _)
FirstPerAgent(rows, seen) ==
    IF rows = <<>> THEN <<>>
    ELSE IF Head(rows).agentName \in seen THEN FirstPerAgent(Tail(rows), seen)
    ELSE <<Head(rows)>> \o FirstPerAgent(Tail(rows), seen \cup {Head(rows).agentName})

\* the columns getDashboardStats selects of an agent log
RunSummary(log) ==
    [agentName |-> log.agentName, status |-> log.status,
     completedAt |-> log.completedAt, summary |-> log.summary]

\* what getDashboardStats returns once the seven statements of its
\* Promise.all have resolved
DashboardStats(d) ==
    LET latestInsight == Take(Reverse(d.insights), 1)
        recent == RecentAgentLogs(d, DashboardRunLimit)
    IN  [totalMarkets |-> Len(d.markets),
         activeMarkets |-> Len(SelectSeq(d.markets, LAMBDA m : m.status = "active")),
         totalTraders |-> Len(d.traders),
         unacknowledgedAlerts |->
            Len(SelectSeq(d.alerts, LAMBDA a : a.acknowledged = 0)),
         totalWhaleTrades |-> Len(d.whale_trades),
         latestInsight |->
            IF latestInsight = <<>> THEN NONE
            ELSE Some([title |-> latestInsight[1].title,
                       createdAt |-> latestInsight[1].createdAt]),
         recentAgentRuns |->
            FirstPerAgent([i \in DOMAIN recent |-> RunSummary(recent[i])], {})]

\* a page calls getLatestRunPerAgent() or getDashboardStats()
AgentRunsCall(fn) ==
    /\ call.pc = "idle"
    /\ call' = [pc |-> "querying", fn |-> fn,
                statements |-> IF fn = "getDashboardStats" THEN 7 ELSE 1,
                runs |-> <<>>, stats |-> <<>>, thrown |-> NoError]
    /\ UNCHANGED <<db, now, req, commits>>

\* the statements settle on the store as it stands: the runs are returned,
\* or the first error propagates
AgentRunsSettle(up) ==
    /\ call.pc = "querying"
    /\ call.fn \in {"getLatestRunPerAgent", "getDashboardStats"}
    /\ call' =
          IF ~up THEN [call EXCEPT !.pc = "threw", !.thrown = StoreUnreachable]
          ELSE IF call.fn = "getLatestRunPerAgent"
          THEN [call EXCEPT !.pc = "returned",
                            !.runs = FirstPerAgent(RecentAgentLogs(db, LatestRunLimit), {})]
          ELSE [call EXCEPT !.pc = "returned",
                            !.stats = Some(DashboardStats(db)),
                            !.runs = DashboardStats(db).recentAgentRuns]
    /\ UNCHANGED <<db, now, req, commits>>

AgentRunsRendered ==
    /\ call.pc \in {"returned", "threw"}
    /\ call' = IdleCall
    /\ UNCHANGED <<db, now, req, commits>>

\* the agent that wrote log i: agents in turn, one agent alone, or an agent
\* that ran once before two others took turns
AgentOf(i, cadence) ==
    CASE cadence = "turns" ->
            IF i % 3 = 0 THEN "analysis" ELSE IF i % 3 = 1 THEN "discovery"
            ELSE "collection"
      [] cadence = "alone" -> "discovery"
      [] cadence = "once" ->
            IF i = 1 THEN "insight" ELSE IF i % 2 = 0 THEN "discovery"
            ELSE "collection"

\* log i as an agent writes it; the summary stands for a text naming the run
AgentLog(i, cadence) ==
    [id |-> i, agentName |-> AgentOf(i, cadence),
     status |-> IF i % 4 = 0 THEN "error" ELSE "success",
     startedAt |-> Some(i), completedAt |-> Some(i), summary |-> Some(i)]

MaxLogs == 51
LogCounts == {0, 1, 3, DashboardRunLimit, DashboardRunLimit + 1, LatestRunLimit, MaxLogs}
Cadences == {"turns", "alone", "once"}

InitAgents ==
    /\ \E n \in LogCounts, cadence \in Cadences :
          db = [SeedStore(2) EXCEPT !.agent_logs = [i \in 1..n |-> AgentLog(i, cadence)]]
    /\ now = 0
    /\ req = [c \in Clients |-> IdleReq]
    /\ call = IdleCall
    /\ commits = 0

NextAgents ==
    \/ \E fn \in {"getLatestRunPerAgent", "getDashboardStats"} : AgentRunsCall(fn)
    \/ \E up \in BOOLEAN : AgentRunsSettle(up)
    \/ AgentRunsRendered

SpecAgents == InitAgents /\ [][NextAgents]_vars

(***************************************************************************)
(* Walking the pages of the markets table: one request per page, each its  *)
(* own getMarkets call, on a store the collector leaves alone.             *)
(***************************************************************************)
\* a visitor at the markets table: the filters and sort of the URL, the page
\* looked at, and the rows every page displayed so far
Browsing(p) == [pc |-> "browsing", params |-> p, page |-> 1, shown |-> <<>>]

\* MarketsTable asks getMarkets for the page of the URL
PageRequest ==
    /\ req.pc = "browsing" /\ call.pc = "idle"
    /\ call' = [IdleCall EXCEPT !.pc = "pending",
                                !.params = [req.params EXCEPT !.page = Some(req.page)],
                                !.atCall = commits]
    /\ UNCHANGED <<db, now, req, commits>>

\* Next is offered when the table has rows and page < totalPages
NextEnabled(r) ==
    /\ Len(r.data) # 0
    /\ ~(r.totalPages <= 1)
    /\ ~(r.page >= r.totalPages)

\* the table renders the rows and the visitor follows Next while it is offered
PageShown ==
    /\ req.pc = "browsing" /\ call.pc = "returned"
    /\ LET r == call.result
       IN  req' = [req EXCEPT !.shown = Append(@, r.data),
                              !.page = IF NextEnabled(r) THEN @ + 1 ELSE @,
                              !.pc = IF NextEnabled(r) THEN "browsing" ELSE "end"]
    /\ call' = IdleCall
    /\ UNCHANGED <<db, now, commits>>

\* the request failed: the error boundary renders and the walk stops
PageFailed ==
    /\ req.pc = "browsing" /\ call.pc = "threw"
    /\ req' = [req EXCEPT !.pc = "failed"]
    /\ call' = IdleCall
    /\ UNCHANGED <<db, now, commits>>

PagingCounts == {PAGE_SIZE + 1, MaxMarkets}
PagingStatuses == {NONE, Some("all")}
PagingSorts == {NONE, Some("title_asc"), Some("yes_price_desc")}

InitPaging ==
    /\ \E n \in PagingCounts : db = SeedStore(n)
    /\ now = 0
    /\ \E platform \in Platforms, status \in PagingStatuses, sort \in PagingSorts :
          req = Browsing(Param(platform, status, NONE, NONE, sort, NONE))
    /\ call = IdleCall
    /\ commits = 0

NextPaging ==
    \/ PageRequest
    \/ \E up \in BOOLEAN, plan \in Plans : RowFetch(up, plan)
    \/ \E up \in BOOLEAN : CountQuery(up)
    \/ PageShown
    \/ PageFailed

SpecPaging == InitPaging /\ [][NextPaging]_vars

\* the same walk when every row fetch reads the table in the same order
NextPagingOneScan ==
    \/ PageRequest
    \/ \E up \in BOOLEAN : RowFetch(up, "heap")
    \/ \E up \in BOOLEAN : CountQuery(up)
    \/ PageShown
    \/ PageFailed

SpecPagingOneScan == InitPaging /\ [][NextPagingOneScan]_vars

(***************************************************************************)
(* Steps of the server actions, as seen from a pair of states.             *)
(***************************************************************************)
\* client c's awaited statement runs in this step, and the store answered
StmtStep(c, op) ==
    /\ req[c].op = op /\ req[c].pc = "stmt" /\ req'[c].pc # "stmt"
    /\ req'[c].thrown # StoreUnreachable

AddStep(c) == StmtStep(c, "toggle") /\ ~req[c].isWatched
RemoveStep(c) == StmtStep(c, "toggle") /\ req[c].isWatched
AckStep(c) == StmtStep(c, "ack")

NumWatchRows(d, traderId) == Cardinality(WatchRows(d, traderId))
TraderIds(d) == {d.traders[i].id : i \in DOMAIN d.traders}
AlertIds(d) == {d.alerts[i].id : i \in DOMAIN d.alerts}
AlertRow(d, alertId) == d.alerts[CHOOSE i \in DOMAIN d.alerts : d.alerts[i].id = alertId]
Past(r) == r.pc \in {"revalidate", "returned"}

(***************************************************************************)
(* Claims about the watchlist and the alerts.                              *)
(***************************************************************************)
\* C1: an add issued by toggle(T, isWatched = false) for an existing trader T,
\* run in any interleaving with another client's add for T, raises no error
\* and leaves exactly one watchlist entry for T.
C1_ConcurrentAdds ==
    [][\A c \in Clients :
          (AddStep(c) /\ TraderExists(db, req[c].id))
          => /\ req'[c].thrown = NoError
             /\ req'[c].pc = "revalidate"
             /\ NumWatchRows(db', req[c].id) = 1]_vars

\* two adds of the same trader are in flight together and both have run
\* their insert: one wrote the row, the other was turned away
C1_Witness ==
    \E c1, c2 \in Clients :
        /\ c1 # c2
        /\ \A c \in {c1, c2} :
              /\ req[c].op = "toggle" /\ ~req[c].isWatched /\ req[c].id = 1
              /\ req[c].pc = "revalidate"
        /\ req[c1].rows = 1 /\ req[c2].rows = 0
        /\ NumWatchRows(db, 1) = 1
        /\ NumWatchRows(db, 1) = 1

\* C2: from T unwatched, toggle(T, false), a re-read of the view, then
\* toggle(T, watched as re-read) raise nothing and give back the watchlist
\* table as it was, with no row for T.
C2_ToggleRoundTrip ==
    \A t \in TraderIds(db) \ getWatchlistIds(db) :
        LET r1 == toggleStatement(db, t, FALSE, now, TRUE)
            view == getWatchlistIds(r1.db)
            r2 == toggleStatement(r1.db, t, t \in view, now, TRUE)
        IN  /\ r1.thrown = NoError /\ r2.thrown = NoError
            /\ t \in view
            /\ WatchRows(r2.db, t) = {}
            /\ r2.db.trader_watchlist = db.trader_watchlist

\* a client has removed the one row an earlier toggle added, and the
\* watchlist is empty again
C2_Witness ==
    \E c \in Clients :
        /\ req[c].op = "toggle" /\ req[c].isWatched
        /\ req[c].pc = "revalidate" /\ req[c].rows = 1
        /\ WatchRows(db, req[c].id) = {}
        /\ db.trader_watchlist = <<>>

\* C3: acknowledgeAlert(id) of an existing alert raises no error and leaves
\* acknowledged = 1; run on an alert already acknowledged it leaves the
\* store as it is.
C3_AckIdempotent ==
    [][\A c \in Clients :
          (AckStep(c) /\ req[c].id \in AlertIds(db))
          => /\ req'[c].thrown = NoError
             /\ AlertRow(db', req[c].id).acknowledged = 1
             /\ (AlertRow(db, req[c].id).acknowledged = 1 => db' = db)]_vars

\* two clients have each acknowledged alert 1
C3_Witness ==
    \E c1, c2 \in Clients :
        /\ c1 # c2
        /\ \A c \in {c1, c2} :
              req[c].op = "ack" /\ req[c].id = 1 /\ req[c].pc = "revalidate"
                  /\ req[c].rows = 1
        /\ AlertRow(db, 1).acknowledged = 1

\* C4: once an alert's acknowledged flag is 1, no step of the layer makes it
\* anything else (nor removes the alert).
C4_AckOneWay ==
    [][\A a \in AlertIds(db) :
          AlertRow(db, a).acknowledged = 1
          => a \in AlertIds(db') /\ AlertRow(db', a).acknowledged = 1]_vars

\* alert 2 is acknowledged, and another acknowledgement that matched a row
\* has ended with it still acknowledged and alert 1 still not
C4_Witness ==
    \E c1, c2 \in Clients :
        /\ c1 # c2
        /\ req[c1].op = "ack" /\ req[c1].pc = "revalidate" /\ req[c1].id = 2
        /\ req[c2].op = "ack" /\ req[c2].pc = "returned" /\ req[c2].rows = 1
        /\ AlertRow(db, 2).acknowledged = 1
        /\ AlertRow(db, 1).acknowledged = 0

\* C5: an add of a trader already watched, and a remove of a trader with no
\* entry, raise no error and leave the store unchanged.
C5_NoOpTransitions ==
    [][\A c \in Clients :
          /\ (AddStep(c) /\ WatchRows(db, req[c].id) # {})
             => req'[c].thrown = NoError /\ db' = db
          /\ (RemoveStep(c) /\ WatchRows(db, req[c].id) = {})
             => req'[c].thrown = NoError /\ db' = db]_vars

\* an add that found the trader watched and a remove that found no entry
\* have both returned
C5_Witness ==
    \E c1, c2 \in Clients :
        /\ req[c1].op = "toggle" /\ ~req[c1].isWatched
        /\ req[c1].pc = "returned" /\ req[c1].rows = 0
        /\ req[c2].op = "toggle" /\ req[c2].isWatched
        /\ req[c2].pc = "returned" /\ req[c2].rows = 0

\* C6: the watchlist holds at most one entry per trader id.
C6_UniquePerTrader ==
    \A t \in TraderIdArgs : NumWatchRows(db, t) <= 1

\* both traders are watched and a further add has been turned away
C6_Witness ==
    /\ \A t \in 1..NumTraders : NumWatchRows(db, t) = 1
    /\ \E c \in Clients :
          /\ req[c].op = "toggle" /\ ~req[c].isWatched /\ Past(req[c])
          /\ req[c].rows = 0

\* C7: a toggle that has returned has invalidated /leaderboard, /watchlist
\* and /traders, whether or not it wrote; a toggle that wrote to the store
\* does not end without them.
C7_Revalidates ==
    \A c \in Clients :
        req[c].op = "toggle"
        => /\ req[c].pc = "returned"
              => req[c].revalidated = {"/leaderboard", "/watchlist", "/traders"}
           /\ (req[c].rows > 0 /\ Finished(req[c])) => req[c].pc = "returned"

\* a toggle that wrote and a toggle that wrote nothing have both returned
C7_Witness ==
    \E c1, c2 \in Clients :
        /\ req[c1].op = "toggle" /\ req[c1].pc = "returned" /\ req[c1].rows = 1
        /\ req[c1].isWatched
        /\ req[c2].op = "toggle" /\ req[c2].pc = "returned" /\ req[c2].rows = 0
        /\ req[c2].isWatched

\* rows of the watchlist that belong to traders other than traderId
OtherWatchRows(d, traderId) ==
    SelectSeq(d.trader_watchlist, LAMBDA r : r.traderId # traderId)

\* C8: no step of the layer changes a table the collector owns; an
\* acknowledgement changes nothing but the acknowledged column of the alert
\* named; a toggle for T changes nothing but T's watchlist entry.
C8_Frame ==
    [][/\ \A t \in CollectorTables : db'[t] = db[t]
       /\ DOMAIN db'.alerts = DOMAIN db.alerts
       /\ \A i \in DOMAIN db.alerts :
             /\ [db'.alerts[i] EXCEPT !.acknowledged = 0]
                    = [db.alerts[i] EXCEPT !.acknowledged = 0]
             /\ db'.alerts[i] # db.alerts[i]
                => \E c \in Clients : AckStep(c) /\ req[c].id = db.alerts[i].id
       /\ \A c \in Clients :
             /\ AckStep(c) => db'.trader_watchlist = db.trader_watchlist
             /\ StmtStep(c, "toggle")
                => OtherWatchRows(db', req[c].id) = OtherWatchRows(db, req[c].id)
       /\ db'.trader_watchlist # db.trader_watchlist
          => \E c \in Clients : StmtStep(c, "toggle")]_vars

\* one alert is acknowledged and the other not, one trader's entry has been
\* removed and the other's is still there
C8_Witness ==
    /\ AlertRow(db, 1).acknowledged = 1 /\ AlertRow(db, 2).acknowledged = 0
    /\ NumWatchRows(db, 2) = 1 /\ NumWatchRows(db, 1) = 0
    /\ \E c \in Clients :
          /\ req[c].op = "toggle" /\ req[c].isWatched /\ req[c].id = 1
          /\ req[c].rows = 1 /\ req[c].pc = "revalidate"

(***************************************************************************)
(* Claims about getMarkets.                                                *)
(***************************************************************************)
\* title contains text, letter case ignored
ContainsIgnoringCase(title, text) ==
    \E i \in 0..(Len(title) - Len(text)) :
        Lower(SubSeq(title, i + 1, i + Len(text))) = Lower(text)

\* the filter as the contract words it: every supplied filter must hold, an
\* absent or "all" filter asks nothing, status defaults to "active"
Satisfies(row, p) ==
    /\ LET status == Default(p.status, "active")
       IN  status = "all" \/ row.status = status
    /\ IsSome(p.platform) => (Val(p.platform) = "all" \/ row.platform = Val(p.platform))
    /\ IsSome(p.category) => (Val(p.category) = "all" \/ row.category = Val(p.category))
    /\ IsSome(p.search) => ContainsIgnoringCase(row.title, Val(p.search))

NumSatisfying(d, p) ==
    Cardinality({i \in DOMAIN d.markets : Satisfies(d.markets[i], p)})

Min(a, b) == IF a < b THEN a ELSE b
Max(a, b) == IF a > b THEN a ELSE b

\* rows a page of the result should hold, given its total
RowsDue(total, page) == Min(PAGE_SIZE, Max(0, total - (page - 1) * PAGE_SIZE))

\* the call has settled with an answer of the store, which no commit of the
\* collector changed since the call was made
Answered == /\ call.pc \in {"returned", "threw"}
            /\ call.thrown # StoreUnreachable
            /\ call.atCall = commits

\* the page asked for lies outside 1..totalPages
OutOfRange(d, p) ==
    LET page == Default(p.page, 1)
    IN  page < 1 \/ page > CeilPages(NumSatisfying(d, p))

\* C9: on a store that does not change during the call, getMarkets returns at
\* most PAGE_SIZE rows, total is the number of markets that satisfy the
\* filter whatever the page, and totalPages = ceil(total / PAGE_SIZE).
C9_PageAndTotal ==
    (call.pc = "returned" /\ call.atCall = commits)
    => /\ Len(call.result.data) <= PAGE_SIZE
       /\ call.result.total = NumSatisfying(db, call.params)
       /\ call.result.totalPages * PAGE_SIZE >= call.result.total
       /\ (call.result.totalPages - 1) * PAGE_SIZE < call.result.total

\* the second and last page of the active markets, on an unchanged store
\* that also holds markets the filter leaves out
C9_Witness ==
    /\ call.pc = "returned" /\ call.atCall = commits
    /\ call.params.page = Some(2) /\ call.params.status = NONE
    /\ call.result.total > PAGE_SIZE /\ call.result.total < Len(db.markets)
    /\ call.result.totalPages = 2
    /\ Len(call.result.data) = call.result.total - PAGE_SIZE

\* C10 as claimed: the rows and the total of every result agree, whatever the
\* collector commits during the call.
C10_AlwaysConsistent ==
    call.pc = "returned"
    => Len(call.result.data)
          = RowsDue(call.result.total, Default(call.params.page, 1))

\* C10, amended: the rows and the total of a result agree when no commit of
\* the collector lands between the row fetch and the count query.
C10_ConsistentOnOneState ==
    (call.pc = "returned" /\ call.atData = call.atCount)
    => /\ Len(call.result.data)
             = RowsDue(call.result.total, Default(call.params.page, 1))
       /\ call.result.totalPages = CeilPages(call.result.total)

\* the collector committed during the call, before both queries ran, and the
\* second page came back partly filled
C10_Witness ==
    /\ call.pc = "returned"
    /\ call.atCall < call.atData /\ call.atData = call.atCount
    /\ call.params.page = Some(2)
    /\ Len(call.result.data) > 0 /\ Len(call.result.data) < PAGE_SIZE

\* C11 as claimed: getMarkets called with a page outside 1..totalPages (0 and
\* negative pages included) returns zero rows and raises no error.
C11_OutOfRangeEmpty ==
    (Answered /\ OutOfRange(db, call.params))
    => call.pc = "returned" /\ call.result.data = <<>>

\* page 0 has been asked for and the row fetch was rejected by the store
C11_Witness ==
    /\ Answered /\ call.params.page = Some(0)
    /\ call.pc = "threw" /\ call.thrown = NegativeOffset

\* the part of C11 that holds: a page beyond totalPages returns zero rows
C11_BeyondLastEmpty ==
    (Answered /\ Default(call.params.page, 1) > CeilPages(NumSatisfying(db, call.params)))
    => call.pc = "returned" /\ call.result.data = <<>>

(***************************************************************************)
(* Claims about the filters and the sort of getMarkets.                    *)
(***************************************************************************)
\* the vocabularies the contract names
StatusVocabulary == {"active", "resolved", "closed", "all"}
CategoryList ==
    {"Politics", "Sports", "Crypto", "Culture", "Weather", "Economics", "Tech",
     "Finance"}

\* every filter value of p is absent or a word of its vocabulary
InVocabulary(p) ==
    /\ IsSome(p.status) => Val(p.status) \in StatusVocabulary
    /\ IsSome(p.category) => Val(p.category) \in CategoryList \cup {"all"}

\* the call returned what the same call with parameters q returns
SameAsCall(q) ==
    /\ call.pc = "returned"
    /\ call.result.total = CountMarkets(db, Conditions(q)).rows[1].count
    /\ \E plan \in Plans :
          call.result.data
              = SelectMarkets(db, Conditions(q), OrderBy(Default(q.sort, "volume_desc")),
                              PAGE_SIZE, Offset(Default(q.page, 1)), plan).rows

\* C12 as claimed: with every filter absent or in its vocabulary, the rows
\* getMarkets counts and returns are exactly the markets that satisfy every
\* supplied filter: status (default "active"), platform, category and the
\* search text as a case-insensitive substring of the title.
C12_ConjunctiveFilter ==
    (call.pc = "returned" /\ InVocabulary(call.params))
    => /\ call.result.total = NumSatisfying(db, call.params)
       /\ \A i \in DOMAIN call.result.data :
             Satisfies(call.result.data[i], call.params)

\* a search for "_" has returned markets, none of whose titles holds a "_"
C12_Witness ==
    /\ call.pc = "returned" /\ InVocabulary(call.params)
    /\ call.params.search = Some(<<"_">>)
    /\ call.result.total > 0 /\ call.result.data # <<>>
    /\ NumSatisfying(db, call.params) = 0

\* the part of C12 that holds: the same, for search text without the
\* characters % and _
C12_ConjunctiveFilterPlainText ==
    (/\ call.pc = "returned" /\ InVocabulary(call.params)
     /\ IsSome(call.params.search)
        => Range(Val(call.params.search)) \cap {"%", "_"} = {})
    => /\ call.result.total = NumSatisfying(db, call.params)
       /\ \A i \in DOMAIN call.result.data :
             Satisfies(call.result.data[i], call.params)

\* C14 as claimed: a category outside the closed list is no filter; the call
\* returns what the same call without category returns, and raises nothing.
C14_UnknownCategoryNoFilter ==
    (/\ call.pc \in {"returned", "threw"} /\ call.thrown # StoreUnreachable
     /\ IsSome(call.params.category)
     /\ Val(call.params.category) \notin CategoryList)
    => SameAsCall([call.params EXCEPT !.category = NONE])

\* category "Bogus" has returned no market from a store that holds active ones
C14_Witness ==
    /\ call.pc = "returned" /\ call.params.category = Some("Bogus")
    /\ call.params.status = NONE /\ call.params.platform = NONE
    /\ call.params.search = NONE /\ call.params.page = NONE
    /\ call.result.total = 0 /\ call.result.data = <<>>
    /\ NumSatisfying(db, [call.params EXCEPT !.category = NONE]) > 0

\* C15 as claimed: a status outside active, resolved, closed, all is read as
\* "active"; the call returns what the same call with status "active"
\* returns, and is not rejected.
C15_UnknownStatusIsActive ==
    (/\ call.pc \in {"returned", "threw"} /\ call.thrown # StoreUnreachable
     /\ IsSome(call.params.status)
     /\ Val(call.params.status) \notin StatusVocabulary)
    => SameAsCall([call.params EXCEPT !.status = Some("active")])

\* status "bogus" has returned no market from a store that holds active ones
C15_Witness ==
    /\ call.pc = "returned" /\ call.params.status = Some("bogus")
    /\ call.params.category = NONE /\ call.params.platform = NONE
    /\ call.params.search = NONE /\ call.params.page = NONE
    /\ call.result.total = 0 /\ call.result.data = <<>>
    /\ NumSatisfying(db, [call.params EXCEPT !.status = Some("active")]) > 0

\* the order each sort key of the contract names
SortTable ==
    [volume_desc |-> <<"volume", "desc">>, volume_asc |-> <<"volume", "asc">>,
     yes_price_desc |-> <<"yesPrice", "desc">>, yes_price_asc |-> <<"yesPrice", "asc">>,
     title_asc |-> <<"title", "asc">>, title_desc |-> <<"title", "desc">>]

\* the order the contract gives a sort parameter: the key's own, and that of
\* volume_desc for a key outside the set or none
ContractOrder(sort) ==
    IF IsSome(sort) /\ Val(sort) \in DOMAIN SortTable
    THEN SortTable[Val(sort)] ELSE SortTable["volume_desc"]

HasKey(row, col) == col = "title" \/ IsSome(row[col])

\* rows come in the order <<col, dir>>, as far as their keys are not NULL
InOrder(rows, order) ==
    \A i, j \in DOMAIN rows :
        (i < j /\ HasKey(rows[i], order[1]) /\ HasKey(rows[j], order[1]))
        => IF order[2] = "asc"
           THEN KeyRank(rows[i], order[1]) <= KeyRank(rows[j], order[1])
           ELSE KeyRank(rows[i], order[1]) >= KeyRank(rows[j], order[1])

\* C13: the rows getMarkets returns are ordered by the one column and
\* direction its sort key names; with a key outside the six, or none, they
\* are ordered by descending volume, and no error is raised.
C13_OneSortOrder ==
    (call.pc \in {"returned", "threw"} /\ call.thrown # StoreUnreachable)
    => /\ call.pc = "returned"
       /\ InOrder(call.result.data, ContractOrder(call.params.sort))

\* a key the switch does not name has returned a full page that runs from
\* the greatest volume down
C13_Witness ==
    /\ call.pc = "returned" /\ call.params.sort = Some("bogus")
    /\ Len(call.result.data) = PAGE_SIZE
    /\ \E i, j \in DOMAIN call.result.data :
          /\ i < j
          /\ IsSome(call.result.data[i].volume) /\ IsSome(call.result.data[j].volume)
          /\ Val(call.result.data[i].volume) > Val(call.result.data[j].volume)

(***************************************************************************)
(* Claims about the smart filters.                                         *)
(***************************************************************************)
\* the keys of the contract
ClosedKeys ==
    {"whale_favorites", "closing_soon", "near_5050", "high_arb", "hottest_24h"}

\* a call of filterKey has returned its rows
Returned(filterKey) == call.pc = "returned" /\ call.filterKey = filterKey

RowIds(rows) == {rows[i].id : i \in DOMAIN rows}
NoRowTwice(rows) == \A i, j \in DOMAIN rows : rows[i].id = rows[j].id => i = j

Ids(ms) == {m.id : m \in ms}

\* rows are rows of markets, all among the markets due, and all of these
\* when they are no more than limit
AllOfUpTo(rows, due, limit) ==
    /\ \A i \in DOMAIN rows : rows[i] \in Range(db.markets)
    /\ RowIds(rows) \subseteq Ids(due)
    /\ Cardinality(due) <= limit => RowIds(rows) = Ids(due)

\* C16: a key outside the closed set returns the empty list at once, raises
\* nothing and sends no statement to the store; a key of the set sends one.
C16_ClosedKeySet ==
    call.pc # "idle"
    => IF call.filterKey \in ClosedKeys
       THEN call.statements = 1 /\ call.fn # "none"
       ELSE /\ call.pc = "returned" /\ call.result = <<>>
            /\ call.thrown = NoError /\ call.statements = 0

\* "unknown_key" has returned the empty list without a statement
C16_Witness ==
    /\ Returned("unknown_key")
    /\ call.result = <<>> /\ call.statements = 0

\* C17: near_5050 returns only active markets with 0.45 <= yesPrice <= 0.55
\* (a NULL price never), by descending volume, and all of them when they are
\* no more than limit.
C17_Near5050 ==
    Returned("near_5050")
    => /\ AllOfUpTo(call.result,
                    {m \in Range(db.markets) :
                        /\ m.status = "active" /\ IsSome(m.yesPrice)
                        /\ 45 <= Val(m.yesPrice) /\ Val(m.yesPrice) <= 55},
                    call.limit)
       /\ NoRowTwice(call.result)
       /\ InOrder(call.result, <<"volume", "desc">>)

\* near_5050 has returned the markets at 0.45, 0.50 and 0.55 and none of
\* those at 0.44, at 0.56, resolved or without a price
C17_Witness ==
    /\ Returned("near_5050") /\ call.limit = DEFAULT_LIMIT
    /\ RowIds(call.result) = {1, 2, 7, 8}
    /\ {Val(call.result[i].yesPrice) : i \in DOMAIN call.result} = {45, 50, 55}

\* a market on either side of a pair whose gap is not NULL and at least 0.03
\* in absolute value
InHighArbPair(m) ==
    \E i \in DOMAIN db.market_pairs :
        LET mp == db.market_pairs[i]
        IN  /\ IsSome(mp.priceGap)
            /\ Val(mp.priceGap) >= 3 \/ Val(mp.priceGap) <= -3
            /\ Some(m.id) \in {mp.kalshiMarketId, mp.polymarketMarketId}

\* descending volume with the NULL volumes last
VolumeDescNullsLast(rows) ==
    /\ InOrder(rows, <<"volume", "desc">>)
    /\ \A i, j \in DOMAIN rows :
          (i < j /\ ~IsSome(rows[i].volume)) => ~IsSome(rows[j].volume)

\* C18 as claimed: high_arb returns exactly the markets on either side of a
\* pair whose absolute price gap is >= 0.03 (a NULL gap never qualifies),
\* each once, by descending volume with NULL volumes last.
C18_HighArb ==
    Returned("high_arb")
    => /\ AllOfUpTo(call.result, {m \in Range(db.markets) : InHighArbPair(m)},
                    call.limit)
       /\ NoRowTwice(call.result)
       /\ VolumeDescNullsLast(call.result)

\* high_arb has returned without market 5, which is resolved and sits in a
\* pair with gap 0.05
C18_Witness ==
    /\ Returned("high_arb") /\ call.limit = DEFAULT_LIMIT
    /\ RowIds(call.result) = {1, 2, 4, 6}
    /\ \E i \in DOMAIN db.markets :
          /\ db.markets[i].id = 5 /\ db.markets[i].status = "resolved"
          /\ InHighArbPair(db.markets[i])

\* the part of C18 that holds: the same, of the active markets
C18_HighArbActive ==
    Returned("high_arb")
    => /\ AllOfUpTo(call.result,
                    {m \in Range(db.markets) :
                        InHighArbPair(m) /\ m.status = "active"},
                    call.limit)
       /\ NoRowTwice(call.result)
       /\ VolumeDescNullsLast(call.result)

\* an active market whose close time parses and lies in (now, now + 24h]
ClosesSoon(m) ==
    /\ m.status = "active"
    /\ IsSome(m.closeTime)
    /\ IsSome(ParseTimestamptz(Val(m.closeTime)))
    /\ Val(ParseTimestamptz(Val(m.closeTime))) > now
    /\ Val(ParseTimestamptz(Val(m.closeTime))) <= now + 24

\* C19 as claimed: closing_soon never throws and, when the store answers,
\* returns the active markets whose close time parses and lies in
\* (now, now + 24h], soonest first, whatever close-time texts the other
\* markets hold.
C19_ClosingSoon ==
    (call.pc \in {"returned", "threw"} /\ call.filterKey = "closing_soon")
    => /\ call.pc = "returned"
       /\ call.caught = StoreUnreachable
          \/ AllOfUpTo(call.result, {m \in Range(db.markets) : ClosesSoon(m)},
                       call.limit)
       /\ \A i, j \in DOMAIN call.result :
             i < j => Val(ParseTimestamptz(Val(call.result[i].closeTime)))
                         <= Val(ParseTimestamptz(Val(call.result[j].closeTime)))

\* closing_soon has returned the empty list, with nothing for its catch
\* block to catch, over a store that holds an active market closing within
\* the day
C19_Witness ==
    /\ Returned("closing_soon") /\ call.result = <<>> /\ call.caught = NoError
    /\ \E i \in DOMAIN db.markets : ClosesSoon(db.markets[i])

\* the part of C19 that holds: closing_soon never throws, and returns no
\* market that does not close within the day
C19_NeverThrows ==
    (call.pc \in {"returned", "threw"} /\ call.filterKey = "closing_soon")
    => /\ call.pc = "returned" /\ call.thrown = NoError
       /\ \A i \in DOMAIN call.result : ClosesSoon(call.result[i])

\* the snapshots of market m that carry a timestamp no later than hour t
SnapshotsUpTo(m, t) ==
    {i \in DOMAIN db.price_snapshots :
        LET s == db.price_snapshots[i]
        IN  /\ s.marketId = m.id /\ IsSome(s.timestamp)
            /\ IsSome(ParseTimestamptz(Val(s.timestamp)))
            /\ Val(ParseTimestamptz(Val(s.timestamp))) <= t}

\* the latest of a set of snapshots
LatestOf(snaps) ==
    db.price_snapshots[
        CHOOSE i \in snaps :
            \A j \in snaps :
                Val(ParseTimestamptz(Val(db.price_snapshots[j].timestamp)))
                    <= Val(ParseTimestamptz(Val(db.price_snapshots[i].timestamp)))]

LastHour == 24 * 365

\* |latest yes-price - yes-price of the latest snapshot at or before
\* now - 24h|, where both are known
Moved(m) ==
    LET latest == LatestOf(SnapshotsUpTo(m, LastHour)).yesPrice
        before == LatestOf(SnapshotsUpTo(m, now - 24)).yesPrice
    IN  IF IsSome(latest) /\ IsSome(before)
        THEN Some(IF Val(latest) >= Val(before) THEN Val(latest) - Val(before)
                  ELSE Val(before) - Val(latest))
        ELSE NONE

\* C20: hottest_24h returns only active markets that have a latest snapshot
\* and a snapshot at or before now - 24h, by descending absolute difference
\* of the latest yes-price and the yes-price at or before now - 24h.
C20_Hottest ==
    Returned("hottest_24h")
    => /\ \A i \in DOMAIN call.result :
             LET m == call.result[i]
             IN  /\ m \in Range(db.markets) /\ m.status = "active"
                 /\ SnapshotsUpTo(m, LastHour) # {}
                 /\ SnapshotsUpTo(m, now - 24) # {}
       /\ \A i, j \in DOMAIN call.result :
             (/\ i < j
              /\ IsSome(Moved(call.result[i])) /\ IsSome(Moved(call.result[j])))
             => Val(Moved(call.result[i])) >= Val(Moved(call.result[j]))

\* hottest_24h has returned markets in the order of their moves, without an
\* active market whose only snapshot is younger than a day
C20_Witness ==
    /\ Returned("hottest_24h") /\ Len(call.result) >= 2
    /\ \E i, j \in DOMAIN call.result :
          /\ i < j
          /\ IsSome(Moved(call.result[i])) /\ IsSome(Moved(call.result[j]))
          /\ Val(Moved(call.result[i])) > Val(Moved(call.result[j]))
    /\ \E k \in DOMAIN db.markets :
          /\ db.markets[k].status = "active"
          /\ SnapshotsUpTo(db.markets[k], LastHour) # {}
          /\ SnapshotsUpTo(db.markets[k], now - 24) = {}
          /\ db.markets[k].id \notin RowIds(call.result)

(***************************************************************************)
(* Price history claims.                                                   *)
(***************************************************************************)
\* the instant a timestamp text denotes, in hours of the clock: a date, a
\* date and time in UTC (..Z), or a date and time with an offset; NONE for
\* a text that denotes no instant
InstantOf(t) ==
    IF Len(t) = 10 THEN ParseTimestamptz(t)
    ELSE IF Len(t) \in {24, 25} /\ t[11] = "T" /\ t[12] \in Digits /\ t[13] \in Digits
              /\ IsSome(ParseTimestamptz(SubSeq(t, 1, 10)))
    THEN LET local == Val(ParseTimestamptz(SubSeq(t, 1, 10)))
                          + 10 * DigitVal(t[12]) + DigitVal(t[13])
         IN  IF Len(t) = 24 /\ t[24] = "Z" THEN Some(local)
             ELSE IF Len(t) = 25 /\ t[20] = "+"
             THEN Some(local - (10 * DigitVal(t[21]) + DigitVal(t[22])))
             ELSE IF Len(t) = 25 /\ t[20] = "-"
             THEN Some(local + (10 * DigitVal(t[21]) + DigitVal(t[22])))
             ELSE NONE
    ELSE NONE

HistoryAnswered == call.pc = "returned" /\ call.fn = "getPriceHistoryWithRange"
BoundedRanges == {"24h", "7d", "30d"}
HoursOf(range) == CASE range = "24h" -> 24 [] range = "7d" -> 168 [] range = "30d" -> 720

\* the snapshot's timestamp denotes an instant at or after hour h
AtOrAfter(s, h) ==
    /\ IsSome(s.timestamp)
    /\ IsSome(InstantOf(Val(s.timestamp)))
    /\ Val(InstantOf(Val(s.timestamp))) >= h

NewestFirst(rows) ==
    \A i \in DOMAIN rows : \A j \in DOMAIN rows :
        i < j => AtOrAfter(rows[i], Val(InstantOf(Val(rows[j].timestamp))))

\* C21: getPriceHistoryWithRange(marketId, "24h" | "7d" | "30d", limit)
\* returns only snapshots of that market whose timestamp is at or after
\* now - 24 / 168 / 720 hours, at most limit of them, newest first.
C21_RangeBound ==
    (HistoryAnswered /\ IsSome(call.range) /\ Val(call.range) \in BoundedRanges)
    => /\ Len(call.result) <= call.limit
       /\ \A i \in DOMAIN call.result :
             /\ call.result[i].marketId = call.marketId
             /\ AtOrAfter(call.result[i], now - HoursOf(Val(call.range)))
       /\ NewestFirst(call.result)

\* C21, the case that fails: range 24h answered with a snapshot whose
\* timestamp, written with a UTC offset, lies before now - 24h
C21_Witness ==
    /\ HistoryAnswered
    /\ call.range = Some("24h")
    /\ \E i \in DOMAIN call.result :
          /\ call.result[i].timestamp = Some(Offset5)
          /\ InstantOf(Offset5) = Some(Feb1Midnight - 3)
          /\ ~AtOrAfter(call.result[i], now - 24)

\* every timestamp of the table has the form toISOString writes
IsoStamps(d) ==
    \A i \in DOMAIN d.price_snapshots :
        LET ts == d.price_snapshots[i].timestamp
        IN  /\ IsSome(ts)
            /\ Len(Val(ts)) = 24
            /\ IsSome(InstantOf(Val(ts)))
            /\ Val(ts) = ToISOString(Val(InstantOf(Val(ts))))

\* C21, the part that holds: over a table whose timestamps all have the
\* form toISOString writes, the range bounds the answer as claimed, and no
\* snapshot of the market at or after the bound is left out while there is
\* room under the limit.
C21_RangeBoundIsoStamps ==
    (IsoStamps(db) /\ HistoryAnswered /\ IsSome(call.range)
        /\ Val(call.range) \in BoundedRanges)
    => /\ Len(call.result) <= call.limit
       /\ \A i \in DOMAIN call.result :
             /\ call.result[i].marketId = call.marketId
             /\ AtOrAfter(call.result[i], now - HoursOf(Val(call.range)))
       /\ NewestFirst(call.result)
       /\ Len(call.result) < call.limit
          => \A k \in DOMAIN db.price_snapshots :
                LET s == db.price_snapshots[k]
                IN  (s.marketId = call.marketId
                        /\ AtOrAfter(s, now - HoursOf(Val(call.range))))
                    => \E i \in DOMAIN call.result : call.result[i] = s

\* C22: for range "all", an omitted range and every range string other than
\* 24h, 7d, 30d, getPriceHistoryWithRange applies no lower bound (it sends
\* one statement, which returns what getPriceHistory returns for the same
\* limit) and raises no error.
C22_UnrecognizedNoBound ==
    (call.pc # "idle" /\ call.fn = "getPriceHistoryWithRange"
        /\ (IsSome(call.range) => Val(call.range) \notin BoundedRanges))
    => /\ call.cutoff = NONE
       /\ call.statements = 1
       /\ call.thrown \in {NoError, StoreUnreachable}
       /\ call.pc = "returned"
          => call.result = PriceHistoryQuery(db, call.marketId, call.limit, call.plan).rows

\* C22, the case that fails: a range that names a member of
\* Object.prototype throws before any statement is sent
C22_Witness ==
    /\ call.pc = "threw"
    /\ call.fn = "getPriceHistoryWithRange"
    /\ call.range = Some("constructor")
    /\ call.thrown = RangeError
    /\ call.statements = 0

\* C22, the part that holds: the same for every range that is not a name
\* inherited from Object.prototype.
C22_UnrecognizedOwnNamesNoBound ==
    (call.pc # "idle" /\ call.fn = "getPriceHistoryWithRange"
        /\ (IsSome(call.range) => Val(call.range) \notin BoundedRanges \cup ObjectPrototype))
    => /\ call.cutoff = NONE
       /\ call.statements = 1
       /\ call.thrown \in {NoError, StoreUnreachable}
       /\ call.pc = "returned"
          => call.result = PriceHistoryQuery(db, call.marketId, call.limit, call.plan).rows

(***************************************************************************)
(* Trader position claims.                                                 *)
(***************************************************************************)
PositionsAnswered ==
    /\ call.pc = "returned"
    /\ call.fn = "getLatestTraderPositions"
    /\ call.atRows = commits

\* the rows of a trader that carry the snapshot time t
SnapshotAt(d, traderId, t) ==
    {d.trader_positions[i] : i \in {k \in DOMAIN d.trader_positions :
        /\ d.trader_positions[k].traderId = Some(traderId)
        /\ d.trader_positions[k].snapshotTime = t}}

\* the most recent snapshot time among the trader's rows that carry one
MostRecent(d, traderId) == MaxSnapshotTime(d, traderId).rows[1].t

\* the rows of the trader's most recent snapshot; none where no row of the
\* trader carries a time
LatestSnapshot(d, traderId) ==
    IF TruthyText(MostRecent(d, traderId))
    THEN SnapshotAt(d, traderId, MostRecent(d, traderId))
    ELSE {}

C23_Counterwitness ==
    /\ PositionsAnswered
    /\ call.atMax < call.atRows
    /\ call.result # <<>>
    /\ Range(call.result) # LatestSnapshot(db, call.traderId)

PairsAnswered == call.pc = "returned" /\ call.fn = "getAllPairs"

\* the ids of the pairs whose abs(price_gap) >= g
PairsAtLeast(d, g) ==
    {d.market_pairs[i].id : i \in {k \in DOMAIN d.market_pairs :
        /\ IsSome(d.market_pairs[k].priceGap)
        /\ Abs(Val(d.market_pairs[k].priceGap)) >= g}}

AllPairIds(d) == {d.market_pairs[i].id : i \in DOMAIN d.market_pairs}

\* rows with a known gap come by absolute gap descending
AbsGapDescending(rows) ==
    \A i \in DOMAIN rows : \A j \in DOMAIN rows :
        (i < j /\ IsSome(rows[i].price_gap) /\ IsSome(rows[j].price_gap))
        => Abs(Val(rows[i].price_gap)) >= Abs(Val(rows[j].price_gap))

\* C24 as claimed: for every minGap given, getAllPairs(minGap) returns
\* exactly the pairs whose abs(price_gap) >= minGap, by absolute gap
\* descending; with minGap omitted it returns all pairs.
C24_MinGap ==
    PairsAnswered
    => /\ Len(call.result) = Cardinality(RowIds(call.result))
       /\ AbsGapDescending(call.result)
       /\ IF IsSome(call.minGap) /\ Val(call.minGap).type = "number"
          THEN RowIds(call.result) = PairsAtLeast(db, Val(call.minGap).value)
          ELSE IF IsSome(call.minGap) THEN TRUE
          ELSE RowIds(call.result) = AllPairIds(db)

\* C24, the case that fails: minGap 0 answered with a pair whose gap is
\* NULL
C24_Witness ==
    /\ PairsAnswered
    /\ call.minGap = Some(Number(0))
    /\ \E i \in DOMAIN call.result : call.result[i].price_gap = NONE

\* C24, the part that holds: the same for every minGap other than 0; for 0
\* and for NaN the call returns all pairs, as it does with minGap omitted.
C24_MinGapNonZero ==
    PairsAnswered
    => /\ Len(call.result) = Cardinality(RowIds(call.result))
       /\ AbsGapDescending(call.result)
       /\ IF IsSome(call.minGap) /\ TruthyValue(Val(call.minGap))
          THEN RowIds(call.result) = PairsAtLeast(db, Val(call.minGap).value)
          ELSE RowIds(call.result) = AllPairIds(db)

(***************************************************************************)
(* Leaderboard claims.                                                     *)
(***************************************************************************)
\* the traders whose ranked column is known
Ranked(d, col) == {i \in DOMAIN d.traders : IsSome(d.traders[i][col])}

\* row r stands at place k of the ranking by col descending: fewer than k
\* ranked traders lie above it and at least k at or above it
AtPlace(d, col, r, k) ==
    /\ Cardinality({i \in Ranked(d, col) : Val(d.traders[i][col]) > Val(r[col])}) < k
    /\ Cardinality({i \in Ranked(d, col) : Val(d.traders[i][col]) >= Val(r[col])}) >= k

\* C25: getTopTraders(orderBy, page) ranks by total_pnl or total_volume
\* descending, returns no trader whose ranked column is null, counts in
\* total the traders whose ranked column is non-null, and paginates as
\* getMarkets does: at most PAGE_SIZE rows, from offset (page - 1) *
\* PAGE_SIZE of the ranking, totalPages = ceil(total / PAGE_SIZE).
C25_TopTraders ==
    (call.pc = "returned" /\ call.params.fn = "getTopTraders")
    => LET col == RankedColumn(call.params.orderBy)
           page == Default(call.params.page, 1)
           data == call.result.data
       IN  /\ col = IF call.params.orderBy = Some("total_volume")
                    THEN "totalVolume" ELSE "totalPnl"
           /\ call.result.total = Cardinality(Ranked(db, col))
           /\ call.result.totalPages * PAGE_SIZE >= call.result.total
           /\ (call.result.totalPages - 1) * PAGE_SIZE < call.result.total
           /\ call.result.page = page /\ call.result.pageSize = PAGE_SIZE
           /\ Len(data) = RowsDue(call.result.total, page)
           /\ NoRowTwice(data)
           /\ \A i \in DOMAIN data :
                 /\ data[i] \in Range(db.traders)
                 /\ IsSome(data[i][col])
                 /\ AtPlace(db, col, data[i], (page - 1) * PAGE_SIZE + i)

\* the second page of the ranking by volume, of traders some of whom have
\* no volume and several of whom share one
C25_Witness ==
    /\ call.pc = "returned" /\ call.params.fn = "getTopTraders"
    /\ call.params.orderBy = Some("total_volume") /\ call.params.page = Some(2)
    /\ call.result.total > PAGE_SIZE /\ call.result.total < Len(db.traders)
    /\ Len(call.result.data) = call.result.total - PAGE_SIZE
    /\ call.result.data[1].totalVolume = call.result.data[2].totalVolume

(***************************************************************************)
(* Detail page claims.                                                     *)
(***************************************************************************)
\* the decimal text of n >= 0
RECURSIVE DecimalText(_)
DecimalText(n) ==
    IF n < 10 THEN <<Digit(n)>> ELSE DecimalText(n \div 10) \o <<Digit(n % 10)>>

\* the identifier requested is that of a row
MatchesRow(c, d) ==
    IF c.fn = "getMarketById"
    THEN \E i \in DOMAIN d.markets : DecimalText(d.markets[i].id) = c.segment
    ELSE \E i \in DOMAIN d.traders : d.traders[i].proxyWallet = c.segment

\* the request has ended, and not in a failure of the network
DetailAnswered ==
    /\ call.pc \in {"returned", "threw"}
    /\ call.fn \in {"getMarketById", "getTraderByWallet"}
    /\ call.thrown # StoreUnreachable

\* C26 as claimed: a request for a market or trader that matches no row
\* ends in the not-found signal (the lookup returns null and the page calls
\* notFound()), a market id segment that is not a number included, never in
\* a query error.
C26_NotFoundSignal ==
    (DetailAnswered /\ ~MatchesRow(call, db))
    => /\ call.outcome = "notFound"
       /\ call.found = NONE
       /\ call.thrown = NoError

\* C26, the case that fails: a market id segment that is no number ends in
\* an error of the store
C26_Witness ==
    /\ DetailAnswered
    /\ call.fn = "getMarketById"
    /\ call.segment = Tbd
    /\ call.id = NaN
    /\ call.outcome = "error"
    /\ call.thrown = InvalidInteger

\* C26, the part that holds: a wallet that is no trader's, and a market id
\* segment that parseInt reads as a number which is no market's id, end in
\* the not-found signal.
C26_NotFoundForNumbers ==
    (/\ DetailAnswered
     /\ call.id.type = "number"
     /\ IF call.fn = "getMarketById"
        THEN \A i \in DOMAIN db.markets : db.markets[i].id # call.id.value
        ELSE ~MatchesRow(call, db))
    => /\ call.outcome = "notFound"
       /\ call.found = NONE
       /\ call.thrown = NoError

(***************************************************************************)
(* Failure propagation claims.                                             *)
(***************************************************************************)
\* C27 as claimed, for the smart filters: a statement the unreachable store
\* fails never ends in a normal return; the error reaches the caller.
C27_FailurePropagates ==
    (call.pc = "returned" /\ call.fn # "none") => call.caught # StoreUnreachable

\* C27, the case that fails: the store is unreachable and hottest_24h
\* returns the empty list
C27_Witness ==
    /\ call.pc = "returned"
    /\ call.fn = "getHottestMarkets"
    /\ call.caught = StoreUnreachable
    /\ call.thrown = NoError
    /\ call.result = <<>>

\* C27, the part that holds for the smart filters: only the two functions
\* whose statement stands in try/catch turn a failure into a return, and
\* what they return then is the empty list.
C27_OnlyCatchAllSwallows ==
    (call.pc # "idle" /\ call.caught # NoError)
    => /\ call.fn \in CatchesAll
       /\ call.pc = "returned"
       /\ call.result = <<>>

(***************************************************************************)
(* Agent run claims.                                                       *)
(***************************************************************************)
AgentNames(d) == {d.agent_logs[i].agentName : i \in DOMAIN d.agent_logs}

\* the most recent log of an agent: the one with the greatest id
LatestLog(d, name) ==
    d.agent_logs[CHOOSE i \in DOMAIN d.agent_logs :
        /\ d.agent_logs[i].agentName = name
        /\ \A j \in DOMAIN d.agent_logs :
              d.agent_logs[j].agentName = name => d.agent_logs[j].id <= d.agent_logs[i].id]

RunsAnswered ==
    /\ call.pc = "returned"
    /\ call.fn \in {"getLatestRunPerAgent", "getDashboardStats"}

\* runs holds exactly one record of the agent, its most recent
LatestOnce(runs, d, name) ==
    /\ Cardinality({i \in DOMAIN runs : runs[i].agentName = name}) = 1
    /\ \A i \in DOMAIN runs :
          runs[i].agentName = name => RunSummary(runs[i]) = RunSummary(LatestLog(d, name))

\* C28 as claimed: for every store state, getLatestRunPerAgent and the
\* recentAgentRuns of getDashboardStats hold, for each agent name with at
\* least one log, exactly one record, that agent's most recent.
C28_LatestPerAgent ==
    RunsAnswered
    => /\ \A name \in AgentNames(db) : LatestOnce(call.runs, db, name)
       /\ \A i \in DOMAIN call.runs : call.runs[i].agentName \in AgentNames(db)

\* C28, the case that fails: an agent has a log and recentAgentRuns has no
\* record of it
C28_Witness ==
    /\ RunsAnswered
    /\ call.fn = "getDashboardStats"
    /\ Len(db.agent_logs) = DashboardRunLimit + 1
    /\ "insight" \in AgentNames(db)
    /\ \A i \in DOMAIN call.runs : call.runs[i].agentName # "insight"

\* C28, the part that holds: every record returned is the most recent of
\* its agent, no agent has two, and an agent is left out only if its most
\* recent log is not among the LatestRunLimit (DashboardRunLimit) newest.
C28_LatestAmongRecent ==
    RunsAnswered
    => LET limit == IF call.fn = "getDashboardStats" THEN DashboardRunLimit
                    ELSE LatestRunLimit
       IN  /\ \A i \in DOMAIN call.runs :
                 /\ call.runs[i].agentName \in AgentNames(db)
                 /\ LatestOnce(call.runs, db, call.runs[i].agentName)
           /\ \A name \in AgentNames(db) :
                 LatestLog(db, name).id > Len(db.agent_logs) - limit
                 => LatestOnce(call.runs, db, name)

(***************************************************************************)
(* Claims about the toggle as a set operation.                             *)
(***************************************************************************)
\* C29: toggleWatchlistAction(T, isWatched) sets rather than flips: once
\* its statement has resolved the store has T watched iff isWatched is
\* false, whatever the store held before and whatever other clients did
\* since the view was rendered; so a toggle on a stale view, and the second
\* of two toggles issued from the same view, leave T as the first asked.
C29_SetsNotFlips ==
    [][\A c \in Clients :
          (StmtStep(c, "toggle") /\ req'[c].pc = "revalidate")
          => /\ ~req[c].isWatched => NumWatchRows(db', req[c].id) = 1
             /\ req[c].isWatched => NumWatchRows(db', req[c].id) = 0]_vars

\* two toggles issued from the same view, which showed trader 1 watched,
\* have both run their statement: the first removed the entry, the second
\* found none, and the trader is unwatched
C29_Witness ==
    /\ NumWatchRows(db, 1) = 0
    /\ \E c1, c2 \in Clients :
          /\ c1 # c2
          /\ \A c \in {c1, c2} :
                /\ req[c].op = "toggle" /\ req[c].pc = "revalidate"
                /\ req[c].id = 1 /\ req[c].isWatched
          /\ req[c1].rows = 1 /\ req[c2].rows = 0

(***************************************************************************)
(* C30: the pages of getMarkets taken together.                            *)
(***************************************************************************)
\* how often the pages displayed so far showed market id
TimesShown(id) ==
    Cardinality({kj \in {<<k, j>> : k \in DOMAIN req.shown, j \in 1..PAGE_SIZE} :
                    /\ kj[2] \in DOMAIN req.shown[kj[1]]
                    /\ req.shown[kj[1]][kj[2]].id = id})

RowsShown ==
    Cardinality({kj \in {<<k, j>> : k \in DOMAIN req.shown, j \in 1..PAGE_SIZE} :
                    kj[2] \in DOMAIN req.shown[kj[1]]})

\* the walk went from page 1 to the last page
WalkedAllPages == req.pc = "end"

\* C30: for a fixed store, filters and sort key, pages 1..totalPages of
\* getMarkets together hold every market matching the filter exactly once,
\* also when markets tie or are null on the sort column
C30_PagesPartition ==
    WalkedAllPages =>
        \A i \in DOMAIN db.markets :
            TimesShown(db.markets[i].id) =
                IF Satisfies(db.markets[i], req.params) THEN 1 ELSE 0

\* a walk over two pages or more that showed one matching market twice and
\* another one never
C30_Witness ==
    /\ WalkedAllPages
    /\ Len(req.shown) >= 2
    /\ \E i, j \in DOMAIN db.markets :
          /\ Satisfies(db.markets[i], req.params)
          /\ Satisfies(db.markets[j], req.params)
          /\ TimesShown(db.markets[i].id) = 2
          /\ TimesShown(db.markets[j].id) = 0

\* what the pages do guarantee: only matching markets, none twice on one
\* page, and as many rows in all as markets match
C30_PagesCount ==
    WalkedAllPages =>
        /\ RowsShown = NumSatisfying(db, req.params)
        /\ \A k \in DOMAIN req.shown :
              \A j \in DOMAIN req.shown[k] :
                  /\ Satisfies(req.shown[k][j], req.params)
                  /\ \A l \in DOMAIN req.shown[k] :
                        req.shown[k][l].id = req.shown[k][j].id => l = j

\* checked under SpecPagingOneScan: when every row fetch reads the table in
\* the same order, the pages hold every matching market exactly once
C30_PartitionOneScan ==
    WalkedAllPages =>
        \A i \in DOMAIN db.markets :
            (TimesShown(db.markets[i].id) = 1) <=> Satisfies(db.markets[i], req.params)

====
